---- MODULE Spec2Model ----
(***************************************************************************)
(* The decision engine of veronica (src/core/decision.rs) and the          *)
(* backtesting loop that drives it (src/core/backtesting.rs).              *)
(*                                                                         *)
(* Decision holds the capital (liquidity, u32) and the open positions      *)
(* (stocks_hold: stock_id -> (entry date, num)).  calc_portfolio runs      *)
(* has_trading_data, handle_settle_stocks, handle_hold_stocks and          *)
(* handle_selected_stocks in that order.  The store (BackendOp), the       *)
(* strategy (StrategyAPI) and the crawler are trait objects; the answers   *)
(* they give during one call are the inputs of that call.                  *)
(***************************************************************************)
EXTENDS Integers, Sequences, FiniteSets, TLC

(***************************************************************************)
(* Bounds of the model.                                                    *)
(***************************************************************************)
\* number of calendar days a run covers (start_date = 1 .. end_date = MaxDate)
MaxDate == 3
\* number of calc_portfolio calls made on one engine
MaxCalls == 2
\* the largest capacity (Decision.stocks_hold_num) a caller sets
MaxHoldNum == 2
\* Decision.liquidity at the start
InitLiquidity == 20
\* the largest point and the largest trading_volume of a Score, where get_select_stocks
\* is examined on its own
MaxPoint == 2
MaxVolume == 1
\* the records of the symbol in the store, and how many of the first may differ
\* from the quiet record
MaxRecords == 38
MaxLead == 2
\* the days for which the store holds records, where it is examined on its own
MaxDay == 3
\* liquidity, num and price are u32.  TLC's integers end at 2^31 - 1, so the model
\* keeps the type and narrows it: an unsigned integer of U32Bits bits, with
\* InitLiquidity and the prices of the records scaled down with it
U32Bits == 5
U32Modulus == 2 ^ U32Bits

\* the symbols the store and the crawler know
Stocks == {"0050", "0051", "0052"}

(***************************************************************************)
(* Sequences and sets.                                                     *)
(***************************************************************************)
Range(s) == {s[i] : i \in DOMAIN s}

\* every order in which a HashMap with key set S can be iterated
Orders(S) == {o \in [1..Cardinality(S) -> S] : \A i, j \in 1..Cardinality(S) : i # j => o[i] # o[j]}

RECURSIVE SelectSeq2(_, _)
\* the subsequence of s whose elements are in S
SelectSeq2(s, S) ==
    IF s = <<>> THEN <<>>
    ELSE IF Head(s) \in S THEN <<Head(s)>> \o SelectSeq2(Tail(s), S)
    ELSE SelectSeq2(Tail(s), S)

\* f without the key k (HashMap::remove)
MapRemove(f, k) == [x \in (DOMAIN f) \ {k} |-> f[x]]

\* f with k bound to v (HashMap::insert: an existing entry is overwritten)
MapInsert(f, k, v) == [x \in (DOMAIN f) \cup {k} |-> IF x = k THEN v ELSE f[x]]

(***************************************************************************)
(* schema::RawData, as far as the engine reads it: high and low.           *)
(* A store answer is Ok(Some(record)), Ok(None) or Err(backend::Error).    *)
(***************************************************************************)
RawData(h, l) == [kind |-> "some", high |-> h, low |-> l]
\* RawData::default(): every price field 0.0
RawDataDefault == RawData(0, 0)
NoRecord == [kind |-> "none", high |-> 0, low |-> 0]
BackendFailure == [kind |-> "err", high |-> 0, low |-> 0]
\* the store is not asked about this symbol during the call
NotQueried == [kind |-> "unasked", high |-> 0, low |-> 0]

\* the records a store holds in this model: prices 0, 5 (5.5 truncated) and 12
Records == {RawDataDefault, RawData(9, 2), RawData(16, 8)}
QueryAnswers == Records \cup {NoRecord, BackendFailure}

\* variant of Price: the high of the day instead of the mean of high and low
PriceOfHigh(record) == record.high

\* ((record.high + record.low) / 2.0) as u32: the cast drops the fraction
\* (high and low are not negative here, and far below the u32 range)
Price(record) == (record.high + record.low) \div 2

(***************************************************************************)
(* strategy::Score and its total order.                                    *)
(***************************************************************************)
Score(p, v) == [kind |-> "ok", point |-> p, trading_volume |-> v]
StrategyFailure == [kind |-> "err", point |-> 0, trading_volume |-> 0]
NotAnalyzed == [kind |-> "unasked", point |-> 0, trading_volume |-> 0]
\* the scores of this model: a negative and a neutral one, and two that buy
Scores == {Score(-1, 1), Score(0, 0), Score(1, 0), Score(2, 0)}
AnalyzeAnswers == Scores \cup {StrategyFailure}

\* variant of ScoreCmp: scores with the same point are equal
ScoreCmpPointOnly(lhs, rhs) ==
    IF lhs.point # rhs.point
    THEN (IF lhs.point < rhs.point THEN -1 ELSE 1)
    ELSE 0

\* Ord::cmp of Score: -1 Less, 0 Equal, 1 Greater
ScoreCmp(lhs, rhs) ==
    IF lhs.point # rhs.point
    THEN (IF lhs.point < rhs.point THEN -1 ELSE 1)
    ELSE IF lhs.trading_volume < rhs.trading_volume THEN -1
    ELSE IF lhs.trading_volume > rhs.trading_volume THEN 1
    ELSE 0

\* settle_check answers: Ok(true), Ok(false), Err(strategy::Error)
SettleAnswers == {"true", "false", "err"}

\* get_stock_list answers: the universe, a list that repeats a symbol, or Err
CrawlerOk(l) == [kind |-> "ok", list |-> l]
CrawlerFailure == [kind |-> "err", list |-> <<>>]
StockLists == {<<"0050", "0051">>, <<"0051", "0051">>}
CrawlerAnswers == {CrawlerOk(l) : l \in StockLists} \cup {CrawlerFailure}

(***************************************************************************)
(* decision::StockInfo and decision::Portfolio.                            *)
(***************************************************************************)
StockInfo(id, n, p) == [stock_id |-> id, num |-> n, price |-> p]

Portfolio(d, sel, hold, settled, liq) ==
    [date |-> d, stocks_selected |-> sel, stocks_hold |-> hold,
     stocks_settled |-> settled, liquidity |-> liq]

\* what the variable portfolio holds when the last call returned no snapshot
NoPortfolio == Portfolio(0, <<>>, <<>>, <<>>, 0)

\* the stock ids of a Vec<StockInfo>
Ids(infos) == {infos[i].stock_id : i \in DOMAIN infos}

RECURSIVE Worth(_)
\* sum of num * price over a Vec<StockInfo>
Worth(infos) ==
    IF infos = <<>> THEN 0
    ELSE Head(infos).num * Head(infos).price + Worth(Tail(infos))

(***************************************************************************)
(* Decision::get_select_stocks.                                            *)
(***************************************************************************)
\* stock_scores: one (stock_id, score) per entry of the stock list
StockScores(list, an) == [i \in 1..Len(list) |-> [stock_id |-> list[i], score |-> an[list[i]]]]

\* sort_by(|lhs, rhs| rhs.1.cmp(&lhs.1)) puts entry i before entry j
\* (the sort is stable: equal scores keep their list order)
SortsBefore(ss, i, j) ==
    \/ ScoreCmp(ss[j].score, ss[i].score) = -1
    \/ ScoreCmp(ss[j].score, ss[i].score) = 0 /\ i < j

SortByScoreDesc(ss) ==
    [r \in 1..Len(ss) |->
        ss[CHOOSE i \in 1..Len(ss) :
              Cardinality({j \in 1..Len(ss) : SortsBefore(ss, j, i)}) = r - 1]]

RECURSIVE SelectLoopNoCapacity(_, _, _, _, _)
\* variant of SelectLoop: the loop does not stop when the capacity is reached
SelectLoopNoCapacity(sorted, i, selected, hold, cap) ==
    IF i > Len(sorted) THEN selected
    ELSE IF sorted[i].score.point <= 0 THEN selected
    ELSE SelectLoopNoCapacity(sorted, i + 1,
                    IF sorted[i].stock_id \notin DOMAIN hold
                    THEN Append(selected, sorted[i].stock_id) ELSE selected,
                    hold, cap)

RECURSIVE SelectLoopHeldToo(_, _, _, _, _)
\* variant of SelectLoop: a symbol that is held is selected like any other
SelectLoopHeldToo(sorted, i, selected, hold, cap) ==
    IF i > Len(sorted) THEN selected
    ELSE IF Cardinality(DOMAIN hold) + Len(selected) = cap THEN selected
    ELSE IF sorted[i].score.point <= 0 THEN selected
    ELSE SelectLoopHeldToo(sorted, i + 1, Append(selected, sorted[i].stock_id), hold, cap)

RECURSIVE SelectLoopZeroBuys(_, _, _, _, _)
\* variant of SelectLoop: the loop stops at point < 0, so that point = 0 buys
SelectLoopZeroBuys(sorted, i, selected, hold, cap) ==
    IF i > Len(sorted) THEN selected
    ELSE IF Cardinality(DOMAIN hold) + Len(selected) = cap THEN selected
    ELSE IF sorted[i].score.point < 0 THEN selected
    ELSE SelectLoopZeroBuys(sorted, i + 1,
                    IF sorted[i].stock_id \notin DOMAIN hold
                    THEN Append(selected, sorted[i].stock_id) ELSE selected,
                    hold, cap)

RECURSIVE SelectLoop(_, _, _, _, _)
\* the loop over the sorted scores, from entry i on
SelectLoop(sorted, i, selected, hold, cap) ==
    IF i > Len(sorted) THEN selected
    ELSE IF Cardinality(DOMAIN hold) + Len(selected) = cap THEN selected
    ELSE IF sorted[i].score.point <= 0 THEN selected
    ELSE SelectLoop(sorted, i + 1,
                    IF sorted[i].stock_id \notin DOMAIN hold
                    THEN Append(selected, sorted[i].stock_id) ELSE selected,
                    hold, cap)

\* variant of get_select_stocks: a failure of get_stock_list is returned
get_select_stocks_or_crawler_err(crawler, an, hold, cap) ==
    IF crawler.kind # "ok" THEN [status |-> "Crawler", stocks_selected |-> <<>>]
    ELSE IF \E i \in 1..Len(crawler.list) : an[crawler.list[i]].kind = "err"
    THEN [status |-> "Strategy", stocks_selected |-> <<>>]
    ELSE [status |-> "ok",
          stocks_selected |->
              SelectLoop(SortByScoreDesc(StockScores(crawler.list, an)), 1, <<>>, hold, cap)]

\* Ok(stocks_selected), or Err(Strategy) when an analyze call fails
get_select_stocks(crawler, an, hold, cap) ==
    LET stock_list == IF crawler.kind = "ok" THEN crawler.list ELSE <<>>
    IN  IF \E i \in 1..Len(stock_list) : an[stock_list[i]].kind = "err"
        THEN [status |-> "Strategy", stocks_selected |-> <<>>]
        ELSE [status |-> "ok",
              stocks_selected |->
                  SelectLoop(SortByScoreDesc(StockScores(stock_list, an)), 1, <<>>, hold, cap)]

(***************************************************************************)
(* The statements that change liquidity and stocks_hold.                   *)
(***************************************************************************)
\* the value a wrapping u32 operation leaves (overflow checks off)
WrapU32(x) == x % U32Modulus

\* stock_num * price or the += overflows
SettleOverflows(liq, stock_num, price) == liq + stock_num * price >= U32Modulus

\* self.liquidity += stock_num * price
SettleCredit(liq, stock_num, price) == WrapU32(liq + stock_num * price)

\* variant of HoldRemove: the settled position stays in stocks_hold
HoldRemoveNothing(hold, stock_id) == hold

\* self.stocks_hold.remove(&stock_id)
HoldRemove(hold, stock_id) == MapRemove(hold, stock_id)

\* variant of InvestMaxPerStock: the budget of one stock is all of liquidity
InvestMaxWhole(liq, n) == liq

\* let invest_max_per_stock = self.liquidity / stocks_selected.len() as u32
InvestMaxPerStock(liq, n) == liq \div n

\* let stock_num = invest_max_per_stock / price
StockNum(invest_max_per_stock, price) == invest_max_per_stock \div price

\* stock_num * price overflows or the -= goes below 0
BuyOverflows(liq, stock_num, price) ==
    stock_num * price >= U32Modulus \/ stock_num * price > liq

\* self.liquidity -= stock_num * price
BuyDebit(liq, stock_num, price) == WrapU32(liq - stock_num * price)

\* self.stocks_hold.insert(stock_id, (assess_date, stock_num))
HoldInsert(hold, stock_id, assess_date, stock_num) ==
    MapInsert(hold, stock_id, [date |-> assess_date, num |-> stock_num])

(***************************************************************************)
(* Decision::get_settle_stocks and Decision::handle_settle_stocks.         *)
(***************************************************************************)
\* keys: the iteration order of the call restricted to the keys of hold
Keys(order, hold) == SelectSeq2(order, DOMAIN hold)

\* variant of get_settle_stocks: a settle_check that fails counts as false
get_settle_stocks_ignores_err(order, hold, settle) ==
    [status |-> "ok",
     stocks_settled |-> SelectSeq2(order, {s \in DOMAIN hold : settle[s] = "true"})]

get_settle_stocks(order, hold, settle) ==
    IF \E s \in DOMAIN hold : settle[s] = "err"
    THEN [status |-> "Strategy", stocks_settled |-> <<>>]
    ELSE [status |-> "ok",
          stocks_settled |-> SelectSeq2(order, {s \in DOMAIN hold : settle[s] = "true"})]

RECURSIVE SettleLoop(_, _, _, _)
\* st: status, liquidity, stocks_hold and the portfolio's stocks_settled so far;
\* checks: the build panics on integer overflow (overflow-checks), else it wraps
SettleLoop(todo, q, checks, st) ==
    IF todo = <<>> \/ st.status # "ok" THEN st
    ELSE LET stock_id == Head(todo)
             record == q[stock_id]
         IN  IF stock_id \notin DOMAIN st.stocks_hold
             THEN [st EXCEPT !.status = "BackendRecordNotFound"]
             ELSE IF record.kind = "err" THEN [st EXCEPT !.status = "Backend"]
             ELSE IF record.kind # "some" THEN [st EXCEPT !.status = "BackendRecordNotFound"]
             ELSE LET stock_num == st.stocks_hold[stock_id].num
                      price == Price(record)
                  IN  IF checks /\ SettleOverflows(st.liquidity, stock_num, price)
                      THEN [st EXCEPT !.status = "panic"]
                      ELSE
                      SettleLoop(Tail(todo), q, checks,
                          [status |-> "ok",
                           liquidity |-> SettleCredit(st.liquidity, stock_num, price),
                           stocks_hold |-> HoldRemove(st.stocks_hold, stock_id),
                           infos |-> Append(st.infos, StockInfo(stock_id, stock_num, price))])

handle_settle_stocks(liq, hold, order, q, settle, checks) ==
    LET gs == get_settle_stocks(order, hold, settle)
    IN  IF gs.status # "ok"
        THEN [status |-> gs.status, liquidity |-> liq, stocks_hold |-> hold, infos |-> <<>>]
        ELSE SettleLoop(gs.stocks_settled, q, checks,
                        [status |-> "ok", liquidity |-> liq, stocks_hold |-> hold, infos |-> <<>>])

(***************************************************************************)
(* Decision::handle_hold_stocks.                                           *)
(***************************************************************************)
RECURSIVE HoldLoop(_, _, _, _)
HoldLoop(todo, q, hold, st) ==
    IF todo = <<>> \/ st.status # "ok" THEN st
    ELSE LET stock_id == Head(todo)
             data == q[stock_id]
             \* data.get_or_insert(RawData::default())
             record == IF data.kind = "some" THEN data ELSE RawDataDefault
         IN  IF data.kind = "err" THEN [st EXCEPT !.status = "Backend"]
             ELSE HoldLoop(Tail(todo), q, hold,
                      [status |-> "ok",
                       infos |-> Append(st.infos,
                                        StockInfo(stock_id, hold[stock_id].num, Price(record)))])

handle_hold_stocks(hold, order, q) ==
    HoldLoop(Keys(order, hold), q, hold, [status |-> "ok", infos |-> <<>>])

(***************************************************************************)
(* Decision::handle_selected_stocks.                                       *)
(***************************************************************************)
RECURSIVE BuyLoopSkipsMissing(_, _, _, _, _, _)
\* variant of the buy loop: a selected symbol without record is passed over
BuyLoopSkipsMissing(todo, q, assess_date, invest_max_per_stock, checks, st) ==
    IF todo = <<>> \/ st.status # "ok" THEN st
    ELSE LET stock_id == Head(todo)
             record == q[stock_id]
         IN  IF record.kind = "err" THEN [st EXCEPT !.status = "Backend"]
             ELSE IF record.kind # "some"
             THEN BuyLoopSkipsMissing(Tail(todo), q, assess_date, invest_max_per_stock,
                                      checks, st)
             ELSE IF Price(record) = 0 THEN [st EXCEPT !.status = "panic"]
             ELSE LET price == Price(record)
                      stock_num == StockNum(invest_max_per_stock, price)
                  IN  IF checks /\ BuyOverflows(st.liquidity, stock_num, price)
                      THEN [st EXCEPT !.status = "panic"]
                      ELSE
                      BuyLoopSkipsMissing(Tail(todo), q, assess_date, invest_max_per_stock,
                          checks,
                          [status |-> "ok",
                           liquidity |-> BuyDebit(st.liquidity, stock_num, price),
                           stocks_hold |-> HoldInsert(st.stocks_hold, stock_id,
                                                      assess_date, stock_num),
                           infos |-> Append(st.infos, StockInfo(stock_id, stock_num, price))])

RECURSIVE BuyLoop(_, _, _, _, _, _)
BuyLoop(todo, q, assess_date, invest_max_per_stock, checks, st) ==
    IF todo = <<>> \/ st.status # "ok" THEN st
    ELSE LET stock_id == Head(todo)
             record == q[stock_id]
         IN  IF record.kind = "err" THEN [st EXCEPT !.status = "Backend"]
             ELSE IF record.kind # "some" THEN [st EXCEPT !.status = "BackendRecordNotFound"]
             ELSE IF Price(record) = 0 THEN [st EXCEPT !.status = "panic"]
             ELSE LET price == Price(record)
                      stock_num == StockNum(invest_max_per_stock, price)
                  IN  IF checks /\ BuyOverflows(st.liquidity, stock_num, price)
                      THEN [st EXCEPT !.status = "panic"]
                      ELSE
                      BuyLoop(Tail(todo), q, assess_date, invest_max_per_stock, checks,
                          [status |-> "ok",
                           liquidity |-> BuyDebit(st.liquidity, stock_num, price),
                           stocks_hold |-> HoldInsert(st.stocks_hold, stock_id,
                                                      assess_date, stock_num),
                           infos |-> Append(st.infos, StockInfo(stock_id, stock_num, price))])

handle_selected_stocks(assess_date, liq, hold, cap, q, crawler, an, checks) ==
    LET gs == get_select_stocks(crawler, an, hold, cap)
        st0 == [status |-> gs.status, liquidity |-> liq, stocks_hold |-> hold, infos |-> <<>>]
    IN  IF gs.status # "ok" \/ gs.stocks_selected = <<>> THEN st0
        ELSE BuyLoop(gs.stocks_selected, q, assess_date,
                     InvestMaxPerStock(liq, Len(gs.stocks_selected)), checks, st0)

(***************************************************************************)
(* Decision::has_trading_data and Decision::calc_portfolio.                *)
(***************************************************************************)
RECURSIVE has_trading_data_skips(_, _)
\* variant of has_trading_data: a missing record is passed over
has_trading_data_skips(keys, q) ==
    IF keys = <<>> THEN "true"
    ELSE IF q[Head(keys)].kind = "err" THEN "Backend"
    ELSE has_trading_data_skips(Tail(keys), q)

\* variant of has_trading_data: only the first held symbol is looked up
has_trading_data_first(keys, q) ==
    IF keys = <<>> THEN "true"
    ELSE IF q[Head(keys)].kind = "err" THEN "Backend"
    ELSE IF q[Head(keys)].kind # "some" THEN "false"
    ELSE "true"

RECURSIVE has_trading_data(_, _)
\* "true", "false", or "Backend" when a query fails
has_trading_data(keys, q) ==
    IF keys = <<>> THEN "true"
    ELSE IF q[Head(keys)].kind = "err" THEN "Backend"
    ELSE IF q[Head(keys)].kind # "some" THEN "false"
    ELSE has_trading_data(Tail(keys), q)

\* liquidity and stocks_hold at one point of a call
EngineState(liq, hold) == [liquidity |-> liq, stocks_hold |-> hold]

\* what a call leaves: the return value, the engine state, the snapshot, and the
\* engine state as it was between handle_settle_stocks and handle_hold_stocks
Outcome(r, liq, hold, p, m) ==
    [ret |-> r, liquidity |-> liq, stocks_hold |-> hold, portfolio |-> p, mid |-> m]

\* variant of calc_portfolio: a date that is skipped drops the positions whose
\* record is missing
calc_portfolio_drops_missing(assess_date, liq, hold, cap, checks, e) ==
    LET has == has_trading_data(Keys(e.order, hold), e.q)
        s == handle_settle_stocks(liq, hold, e.order, e.q, e.settle, checks)
        h == handle_hold_stocks(s.stocks_hold, e.order, e.q)
        b == handle_selected_stocks(assess_date, s.liquidity, s.stocks_hold, cap,
                                    e.q, e.crawler, e.an, checks)
        m == EngineState(s.liquidity, s.stocks_hold)
        kept == [x \in {y \in DOMAIN hold : e.q[y].kind = "some"} |-> hold[x]]
    IN  IF has = "false" THEN Outcome("None", liq, kept, NoPortfolio, EngineState(liq, kept))
        ELSE IF has # "true" THEN Outcome(has, liq, hold, NoPortfolio, EngineState(liq, hold))
        ELSE IF s.status # "ok" THEN Outcome(s.status, s.liquidity, s.stocks_hold, NoPortfolio, m)
        ELSE IF h.status # "ok" THEN Outcome(h.status, s.liquidity, s.stocks_hold, NoPortfolio, m)
        ELSE IF b.status # "ok" THEN Outcome(b.status, b.liquidity, b.stocks_hold, NoPortfolio, m)
        ELSE Outcome("Some", b.liquidity, b.stocks_hold,
                     Portfolio(assess_date, b.infos, h.infos, s.infos, b.liquidity), m)

\* e: the answers the collaborators give during this call
calc_portfolio(assess_date, liq, hold, cap, checks, e) ==
    LET has == has_trading_data(Keys(e.order, hold), e.q)
        s == handle_settle_stocks(liq, hold, e.order, e.q, e.settle, checks)
        h == handle_hold_stocks(s.stocks_hold, e.order, e.q)
        b == handle_selected_stocks(assess_date, s.liquidity, s.stocks_hold, cap,
                                    e.q, e.crawler, e.an, checks)
        m == EngineState(s.liquidity, s.stocks_hold)
    IN  IF has = "false" THEN Outcome("None", liq, hold, NoPortfolio, EngineState(liq, hold))
        ELSE IF has # "true" THEN Outcome(has, liq, hold, NoPortfolio, EngineState(liq, hold))
        ELSE IF s.status # "ok" THEN Outcome(s.status, s.liquidity, s.stocks_hold, NoPortfolio, m)
        ELSE IF h.status # "ok" THEN Outcome(h.status, s.liquidity, s.stocks_hold, NoPortfolio, m)
        ELSE IF b.status # "ok" THEN Outcome(b.status, b.liquidity, b.stocks_hold, NoPortfolio, m)
        ELSE Outcome("Some", b.liquidity, b.stocks_hold,
                     Portfolio(assess_date, b.infos, h.infos, s.infos, b.liquidity), m)


(***************************************************************************)
(* The Bollinger band strategy: BollingerBandView::transform,              *)
(* Strategy::get_views and Strategy::analyze.  Prices are whole numbers;   *)
(* a date is a day number.  The moving average and the standard deviation  *)
(* of a full window are kept exactly, as multiples of 1 / (3 * PERIOD):    *)
(* the field sma is sma * 3 * PERIOD, the sum of high + low + close over   *)
(* the window, and sd_sq is (sd * 3 * PERIOD) ^ 2.                         *)
(***************************************************************************)
PERIOD == 30
ANALYZE_RANGE == 8
BAND_SIZE == 2

\* schema::RawData with the fields the strategy reads
DatedRawData(d, o, h, l, c, v) ==
    [date |-> d, open |-> o, high |-> h, low |-> l, close |-> c, trading_volume |-> v]

\* three times the price the indicators are fed: (high + low + close) / 3.0
Price3(r) == r.high + r.low + r.close

RECURSIVE SeqSum(_)
SeqSum(s) == IF s = <<>> THEN 0 ELSE Head(s) + SeqSum(Tail(s))

\* the last PERIOD inputs of the indicators after record idx (idx >= PERIOD)
Window(records, idx) == SubSeq(records, idx - PERIOD + 1, idx)

\* SimpleMovingAverage::next after record idx, times 3 * PERIOD
Sma(records, idx) ==
    LET w == Window(records, idx) IN SeqSum([i \in DOMAIN w |-> Price3(w[i])])

\* StandardDeviation::next after record idx (the population deviation of the
\* window), times 3 * PERIOD, squared
SdSq(records, idx) ==
    LET w == Window(records, idx)
    IN  PERIOD * SeqSum([i \in DOMAIN w |-> Price3(w[i]) * Price3(w[i])])
        - Sma(records, idx) * Sma(records, idx)

BollingerBandView(records, idx) ==
    [open |-> records[idx].open, high |-> records[idx].high, low |-> records[idx].low,
     close |-> records[idx].close, date |-> records[idx].date,
     volume |-> records[idx].trading_volume,
     sma |-> Sma(records, idx), sd_sq |-> SdSq(records, idx)]

\* variant of WindowFull: the view of record PERIOD is not pushed either
WindowFullLate(idx) == idx > PERIOD

\* idx + 1 >= PERIOD, idx counted from 1 here
WindowFull(idx) == idx >= PERIOD

RECURSIVE TransformLoop(_, _, _)
TransformLoop(records, idx, views) ==
    IF idx > Len(records) THEN views
    ELSE TransformLoop(records, idx + 1,
                       IF WindowFull(idx)
                       THEN Append(views, BollingerBandView(records, idx))
                       ELSE views)

transform(records) == TransformLoop(records, 1, <<>>)

\* BackendOp::query_by_range: the records of the symbol from start_date to
\* end_date, both included, in key order
query_by_range(db, start_date, end_date) ==
    LET Within(r) == start_date <= r.date /\ r.date <= end_date
    IN  SelectSeq(db, Within)

ViewsOk(views) == [kind |-> "ok", views |-> views]
ViewsFailure == [kind |-> "err", views |-> <<>>]

\* db: the records of the symbol in the store; ok: the store answers the query
get_views(db, ok, start_date, end_date) ==
    LET calc_date == start_date - PERIOD * 2
        records == query_by_range(db, calc_date, end_date)
        views == transform(records)
        from == {index \in DOMAIN views : views[index].date >= start_date}
    IN  IF ~ok THEN ViewsFailure
        ELSE IF Len(records) < PERIOD THEN ViewsOk(<<>>)
        ELSE IF from = {} THEN ViewsOk(<<>>)
        ELSE ViewsOk(SubSeq(views, CHOOSE index \in from : \A x \in from : index <= x,
                            Len(views)))

\* price >= sma + sd and price <= sma + BAND_SIZE * sd
InBuyZone(view) ==
    LET d == PERIOD * Price3(view) - view.sma
    IN  /\ d >= 0
        /\ d * d >= view.sd_sq
        /\ d * d <= BAND_SIZE * BAND_SIZE * view.sd_sq

\* variant of SdRises: the deviations are not compared
SdNeverRises(tmp_sd_sq, view) == FALSE

\* tmp_sd < view.sd: the view at hand has a greater deviation than the next
\* newer one
SdRises(tmp_sd_sq, view) == tmp_sd_sq < view.sd_sq

Rejected == [kind |-> "rejected", in_buy_zone_count |-> 0, sma |-> 0]

RECURSIVE AnalyzeLoopNoBreak(_, _, _, _, _)
\* variant of the loop of analyze: it walks every view it is given
AnalyzeLoopNoBreak(views, i, tmp_sd_sq, total_count, in_buy_zone_count) ==
    IF i = 0 THEN [kind |-> "done", in_buy_zone_count |-> in_buy_zone_count,
                   sma |-> views[1].sma]
    ELSE LET view == views[i]
             count == IF InBuyZone(view) THEN in_buy_zone_count + 1 ELSE in_buy_zone_count
         IN  IF Price3(view) = 0 THEN Rejected
             ELSE IF SdRises(tmp_sd_sq, view) THEN Rejected
             ELSE AnalyzeLoopNoBreak(views, i - 1, view.sd_sq, total_count + 1, count)

RECURSIVE AnalyzeLoop(_, _, _, _, _)
\* the loop over views.iter().rev(): i is the position of the view at hand
AnalyzeLoop(views, i, tmp_sd_sq, total_count, in_buy_zone_count) ==
    IF i = 0 THEN [kind |-> "end", in_buy_zone_count |-> in_buy_zone_count, sma |-> 0]
    ELSE LET view == views[i]
             count == IF InBuyZone(view) THEN in_buy_zone_count + 1 ELSE in_buy_zone_count
         IN  IF Price3(view) = 0 THEN Rejected
             ELSE IF SdRises(tmp_sd_sq, view) THEN Rejected
             ELSE IF total_count + 1 = ANALYZE_RANGE
             THEN [kind |-> "done", in_buy_zone_count |-> count, sma |-> view.sma]
             ELSE AnalyzeLoop(views, i - 1, view.sd_sq, total_count + 1, count)

\* variant of OnAssessDate: the date of the last view is not looked at
OnAnyDate(last_view, assess_date) == TRUE

\* last_view.date != assess_date, negated
OnAssessDate(last_view, assess_date) == last_view.date = assess_date

\* variant of AsI64: the quotient is rounded to the nearest integer
AsI64Rounded(num, den) == (2 * num + den) \div (2 * den)

\* (num / den) as i64, for a quotient that is not negative: the fraction is cut
AsI64(num, den) == num \div den

\* analyze from the views get_views returned; in_buy_zone_ratio * rise_ratio is
\* (in_buy_zone_count / ANALYZE_RANGE * 100) * ((last sma - sma) / sma * 100)
score_views(views, assess_date) ==
    IF Len(views) < ANALYZE_RANGE THEN Score(0, 0)
    ELSE LET last_view == views[Len(views)]
             w == AnalyzeLoop(views, Len(views), last_view.sd_sq, 0, 0)
         IN  IF ~OnAssessDate(last_view, assess_date) THEN Score(0, 0)
             ELSE IF w.kind # "done" THEN Score(0, 0)
             ELSE IF last_view.sma - w.sma <= 0 THEN Score(0, 0)
             ELSE Score(AsI64(w.in_buy_zone_count * 100 * 100 * (last_view.sma - w.sma),
                              ANALYZE_RANGE * w.sma),
                        last_view.volume)

CONT_LOW_LIMIT == 3

\* variant of WeakPrice: the price compared is the representative price
\* (high + low + close) / 3
WeakPriceRepresentative(view) ==
    LET e == PERIOD * Price3(view) - view.sma
    IN  ~(e >= 0 /\ e * e >= view.sd_sq)

\* price < view.sma + view.sd for price = view.low + (view.high - view.low) * 0.75:
\* with e = 4 * 3 * PERIOD * (price - sma), not (e >= 0 and e ^ 2 >= 16 * sd_sq)
WeakPrice(view) ==
    LET e == 3 * PERIOD * (view.low + 3 * view.high) - 4 * view.sma
    IN  ~(e >= 0 /\ e * e >= 16 * view.sd_sq)

RECURSIVE SettleCheckLoopOfTwo(_, _, _)
\* variant of SettleCheckLoop: two weak views in a row are enough
SettleCheckLoopOfTwo(views, i, count) ==
    IF i = 0 THEN "false"
    ELSE IF ~WeakPrice(views[i]) THEN "false"
    ELSE IF count + 1 = 2 THEN "true"
    ELSE SettleCheckLoopOfTwo(views, i - 1, count + 1)

RECURSIVE SettleCheckLoop(_, _, _)
\* the loop over views.iter().rev() of settle_check: i is the position of the
\* view at hand
SettleCheckLoop(views, i, count) ==
    IF i = 0 THEN "false"
    ELSE IF ~WeakPrice(views[i]) THEN "false"
    ELSE IF count + 1 = CONT_LOW_LIMIT THEN "true"
    ELSE SettleCheckLoop(views, i - 1, count + 1)

\* variant of LastViewOn: the date of the last view is not looked at
LastViewAnywhere(views, assess_date) == TRUE

\* views.last().unwrap().date != assess_date, negated
LastViewOn(views, assess_date) == views[Len(views)].date = assess_date

\* "true", "false", or "err" when the store fails
settle_check(db, ok, hold_date, assess_date) ==
    LET got == get_views(db, ok, hold_date, assess_date)
    IN  IF got.kind # "ok" THEN "err"
        ELSE IF Len(got.views) = 0 THEN "false"
        ELSE IF ~LastViewOn(got.views, assess_date) THEN "false"
        ELSE SettleCheckLoop(got.views, Len(got.views), 0)

analyze(db, ok, assess_date) ==
    LET analyze_date == assess_date - ANALYZE_RANGE * 2
        got == get_views(db, ok, analyze_date, assess_date)
    IN  IF got.kind # "ok" THEN StrategyFailure
        ELSE score_views(got.views, assess_date)

(***************************************************************************)
(* SledBackend: the keys of the store are byte strings, ordered byte by    *)
(* byte; a string is the sequence of its bytes.  A date of the store is a  *)
(* day number: day 1 is 2020-01-30, so that the days cross a month.        *)
(***************************************************************************)
\* the symbols of the store, one a prefix of another
StoreSymbols == {"005", "0050", "006"}

\* the bytes of a symbol
Bytes(stock_id) ==
    CASE stock_id = "005" -> <<48, 48, 53>>
      [] stock_id = "0050" -> <<48, 48, 53, 48>>
      [] stock_id = "006" -> <<48, 48, 54>>

\* NaiveDate::to_string: "2020-01-30", "2020-01-31", "2020-02-01", ...
to_string(d) ==
    LET month == IF d + 29 <= 31 THEN 1 ELSE 2
        day == IF d + 29 <= 31 THEN d + 29 ELSE d + 29 - 31
    IN  <<50, 48, 50, 48, 45, 48, 48 + month, 45, 48 + (day \div 10), 48 + (day % 10)>>

\* stock_id + "_" + &date.to_string()
Key(stock_id, d) == Bytes(stock_id) \o <<95>> \o to_string(d)

RECURSIVE BytesLess(_, _)
\* the order of the keys of sled: byte by byte, a proper prefix first
BytesLess(a, b) ==
    IF b = <<>> THEN FALSE
    ELSE IF a = <<>> THEN TRUE
    ELSE IF Head(a) # Head(b) THEN Head(a) < Head(b)
    ELSE BytesLess(Tail(a), Tail(b))

IsPrefix(p, k) == Len(p) <= Len(k) /\ SubSeq(k, 1, Len(p)) = p

RECURSIVE InKeyOrder(_, _)
\* the values of the keys ks of the tree, in the order of the keys
InKeyOrder(tree, ks) ==
    IF ks = {} THEN <<>>
    ELSE LET k == CHOOSE x \in ks : \A y \in ks \ {x} : BytesLess(x, y)
         IN  <<tree[k]>> \o InKeyOrder(tree, ks \ {k})

\* the record stored for a symbol and a date; stock_id is kept with it to tell
\* whose record it is (schema::RawData has no such field)
StoredRecord(stock_id, d) == [stock_id |-> stock_id, date |-> d]

\* batch.insert(&key[..], encoded) for one record
batch_insert(tree, stock_id, d) ==
    LET key == Key(stock_id, d)
    IN  [k \in DOMAIN tree \cup {key} |->
            IF k = key THEN StoredRecord(stock_id, d) ELSE tree[k]]

\* variant of RangeEnd: the end of the range is the key of end_date itself
RangeEndSameDay(stock_id, end_date) == Key(stock_id, end_date)

\* stock_id + "_" + &end_date.succ_opt().unwrap().to_string()
RangeEnd(stock_id, end_date) == Key(stock_id, end_date + 1)

\* SledBackend::query_by_range: self.db_op.range(start..end)
sled_query_by_range(tree, stock_id, start_date, end_date) ==
    LET start == Key(stock_id, start_date)
        end == RangeEnd(stock_id, end_date)
    IN  InKeyOrder(tree, {k \in DOMAIN tree : ~BytesLess(k, start) /\ BytesLess(k, end)})

\* SledBackend::query_all: self.db_op.scan_prefix(stock_id)
query_all(tree, stock_id) ==
    InKeyOrder(tree, {k \in DOMAIN tree : IsPrefix(Bytes(stock_id), k)})

(***************************************************************************)
(* State: the engine, the last call, and the backtesting loop.             *)
(***************************************************************************)
VARIABLES
    liquidity,        \* Decision.liquidity
    stocks_hold,      \* Decision.stocks_hold: stock_id -> [date, num]
    stocks_hold_num,  \* Decision.stocks_hold_num: the capacity
    ret,              \* what the last call returned: "Some", "None", an Error, "panic";
                      \* "new" before the first call, "dropped" once the caller is done with it
    portfolio,        \* the snapshot of the last call (NoPortfolio when it returned none)
    env,              \* the answers the store, the strategy and the crawler gave in the last call
    pre,              \* liquidity and stocks_hold as they were when the last call began
    mid,              \* liquidity and stocks_hold as the settle phase of the last call left them
    overflow_checks,  \* the build: TRUE when integer overflow panics, FALSE when it wraps
    date,             \* the date of the next call (Backtesting::run: the local date)
    end_date,         \* Backtesting.end_date
    run_hold,         \* Backtesting::run: the local stocks_hold, stock_id -> entry date
    trade_stocks,     \* Backtesting::run: the local trade_stocks, stock_id -> Vec<(hold_date, settle_date)>
    portfolios,       \* Backtesting.portfolios
    run_pc,           \* Backtesting::run: "loop", "called", "done", "aborted"; "off" when no run is modelled
    select_ret,       \* what get_select_stocks returned, when it is called on its own
    calls,            \* Backtesting::run: the calc_portfolio calls made so far, each with its
                      \* date, what it returned and the snapshot
    store,            \* the records of one symbol in the store, in key (date) order
    transformed,      \* what BollingerBandView::transform returned for the records of store
    analyzed,         \* what Strategy::analyze returned for the symbol, and for which date
    checked,          \* what Strategy::settle_check returned for the symbol, and for which dates
    db_op,            \* SledBackend.db_op: the tree of the store, key -> record
    queried,          \* what the last query_by_range or query_all of the store returned
    update            \* Utils::update_raw_data: where it is (pc), stock_list, the position in
                      \* it (idx), the local data, and what it returned (ret)

engineVars == <<liquidity, stocks_hold, stocks_hold_num>>
callVars == <<ret, portfolio, env, pre, mid>>
storeVars == <<db_op, queried>>
strategyVars == <<store, transformed, analyzed, checked, storeVars, update>>
runVars == <<end_date, run_hold, trade_stocks, portfolios, run_pc, calls>>
vars == <<liquidity, stocks_hold, stocks_hold_num, ret, portfolio, env, pre, mid,
          overflow_checks, date, end_date, run_hold, trade_stocks, portfolios, run_pc,
          select_ret, calls, store, transformed, analyzed, checked, db_op, queried,
          update>>

\* the answers of one call; a collaborator that is not asked has the Not... entry
Env(order, q, settle, crawler, an) ==
    [order |-> order, q |-> q, settle |-> settle, crawler |-> crawler, an |-> an]

PadQ(q) == [s \in Stocks |-> IF s \in DOMAIN q THEN q[s] ELSE NotQueried]
PadSettle(st) == [s \in Stocks |-> IF s \in DOMAIN st THEN st[s] ELSE "unasked"]
PadAn(an) == [s \in Stocks |-> IF s \in DOMAIN an THEN an[s] ELSE NotAnalyzed]
CrawlerNotAsked == [kind |-> "unasked", list |-> <<>>]

NoSelectRet == [status |-> "none", stocks_selected |-> <<>>]

NoEnv == Env(<<>>, PadQ(<<>>), PadSettle(<<>>), CrawlerNotAsked, PadAn(<<>>))

NotTransformed == [kind |-> "none", views |-> <<>>]
NotAnalyzedYet == [kind |-> "none", assess_date |-> 0, score |-> NotAnalyzed]

NotChecked == [kind |-> "none", hold_date |-> 0, assess_date |-> 0, settle |-> "unasked"]

NotQueriedYet == [op |-> "none", stock_id |-> "", start_date |-> 0, end_date |-> 0,
                  records |-> <<>>]

\* an empty tree that nothing reads
NoStore ==
    /\ db_op = <<>>
    /\ queried = NotQueriedYet

\* update_raw_data at pc, with stock_list, at position idx of it, with data
\* collected, having returned ret ("running" until it returns)
Update(pc, stock_list, idx, data, r) ==
    [pc |-> pc, stock_list |-> stock_list, idx |-> idx, data |-> data, ret |-> r]

NoUpdate == Update("off", <<>>, 0, <<>>, "running")

\* no strategy is modelled: an empty store that nothing reads
NoStrategy ==
    /\ store = <<>>
    /\ transformed = NotTransformed
    /\ analyzed = NotAnalyzedYet
    /\ checked = NotChecked
    /\ NoStore
    /\ update = NoUpdate

\* Decision::new, with liquidity and stocks_hold_num as the caller sets them
InitEngine ==
    /\ liquidity = InitLiquidity
    /\ stocks_hold = <<>>
    /\ stocks_hold_num \in 1..MaxHoldNum
    /\ ret = "new"
    /\ portfolio = NoPortfolio
    /\ env = NoEnv
    /\ pre = EngineState(InitLiquidity, <<>>)
    /\ mid = EngineState(InitLiquidity, <<>>)
    /\ overflow_checks \in BOOLEAN
    /\ date = 1

Init ==
    /\ InitEngine
    /\ end_date = MaxCalls
    /\ run_hold = <<>>
    /\ trade_stocks = <<>>
    /\ portfolios = <<>>
    /\ run_pc = "off"
    /\ select_ret = NoSelectRet
    /\ calls = <<>>
    /\ NoStrategy

\* one call of calc_portfolio(assess_date) in which the collaborators answer e
Call(assess_date, e) ==
    \E o \in {calc_portfolio(assess_date, liquidity, stocks_hold, stocks_hold_num,
                              overflow_checks, e)} :
        /\ liquidity' = o.liquidity
        /\ stocks_hold' = o.stocks_hold
        /\ ret' = o.ret
        /\ portfolio' = o.portfolio
        /\ env' = e
        /\ pre' = EngineState(liquidity, stocks_hold)
        /\ mid' = o.mid

\* the positions left after the settle phase when the strategy answers st
AfterSettle(hold, st) == [s \in {x \in DOMAIN hold : st[x] # "true"} |-> hold[s]]

\* calc_portfolio(assess_date), for every answer the collaborators can give to the
\* questions the call asks them: QA by the store, SA by settle_check, CA by the
\* crawler, AA by analyze
Answered(assess_date, QA, SA, CA, AA) ==
    \E order \in Orders(DOMAIN stocks_hold), qh \in [DOMAIN stocks_hold -> QA] :
      IF \E s \in DOMAIN stocks_hold : qh[s].kind # "some"
      THEN Call(assess_date,
                Env(order, PadQ(qh), PadSettle(<<>>), CrawlerNotAsked, PadAn(<<>>)))
      ELSE \E st \in [DOMAIN stocks_hold -> SA] :
        IF \E s \in DOMAIN stocks_hold : st[s] = "err"
        THEN Call(assess_date,
                  Env(order, PadQ(qh), PadSettle(st), CrawlerNotAsked, PadAn(<<>>)))
        ELSE \E c \in CA :
             \E an \in [Range(c.list) -> AA] :
               \E sel \in {get_select_stocks(c, PadAn(an), AfterSettle(stocks_hold, st),
                                             stocks_hold_num).stocks_selected} :
                 \E qs \in [Range(sel) \ DOMAIN stocks_hold -> QA] :
                     Call(assess_date,
                          Env(order, PadQ(qh @@ qs), PadSettle(st), c, PadAn(an)))

(***************************************************************************)
(* The engine under a sequence of calc_portfolio calls.                    *)
(***************************************************************************)
\* a caller calls calc_portfolio on the next date
CalcPortfolio ==
    /\ run_pc = "off"
    /\ date <= MaxCalls
    /\ ret \in {"new", "dropped"}
    /\ Answered(date, QueryAnswers, SettleAnswers, CrawlerAnswers, AnalyzeAnswers)
    /\ UNCHANGED <<stocks_hold_num, overflow_checks, date, select_ret>>
    /\ UNCHANGED runVars
    /\ UNCHANGED strategyVars

\* the caller is done with what the call returned (the Option<Portfolio> or the
\* Error goes out of scope); the engine keeps liquidity and stocks_hold.
\* A panic ends the process.
Drop ==
    /\ run_pc = "off"
    /\ ret \notin {"new", "dropped", "panic"}
    /\ ret' = "dropped"
    /\ portfolio' = NoPortfolio
    /\ env' = NoEnv
    /\ pre' = EngineState(liquidity, stocks_hold)
    /\ mid' = EngineState(liquidity, stocks_hold)
    /\ date' = date + 1
    /\ UNCHANGED <<engineVars, overflow_checks, select_ret>>
    /\ UNCHANGED runVars
    /\ UNCHANGED strategyVars

Next == CalcPortfolio \/ Drop

Spec == Init /\ [][Next]_vars

(***************************************************************************)
(* Backtesting::run(1, end_date).                                          *)
(***************************************************************************)
\* the answers of a store whose records all carry one price, and of a strategy
\* whose scores are neutral or 1
RunQueryAnswers == {NoRecord, RawData(9, 2), BackendFailure}
RunSettleAnswers == SettleAnswers
RunCrawlerAnswers == CrawlerAnswers
RunAnalyzeAnswers == {Score(0, 0), Score(1, 0), StrategyFailure}

InitRun ==
    /\ InitEngine
    /\ end_date \in 0..MaxDate
    /\ run_hold = <<>>
    /\ trade_stocks = <<>>
    /\ portfolios = <<>>
    /\ run_pc = "loop"
    /\ select_ret = NoSelectRet
    /\ calls = <<>>
    /\ NoStrategy

\* variant of InRange: the end date is left out
InRangeExclusive(d, e) == d < e

\* while date <= self.end_date
InRange(d, e) == d <= e

\* variant of PushSnapshot: the new snapshot takes the place of the last one
PushOverLast(ps, p) == IF ps = <<>> THEN <<p>> ELSE [ps EXCEPT ![Len(ps)] = p]

\* self.portfolios.push(portfolio)
PushSnapshot(ps, p) == Append(ps, p)

\* variant of TradePair: the two dates change places
TradePairSwapped(hold_date, d) == <<d, hold_date>>

\* (*hold_date, date)
TradePair(hold_date, d) == <<hold_date, d>>

\* decision.calc_portfolio(date) in the loop, the collaborators answering from
\* QA, SA, CA and AA
RunCall(QA, SA, CA, AA) ==
    /\ run_pc = "loop"
    /\ InRange(date, end_date)
    /\ Answered(date, QA, SA, CA, AA)
    /\ run_pc' = "called"
    /\ calls' = Append(calls, [date |-> date, ret |-> ret', portfolio |-> portfolio'])
    /\ UNCHANGED strategyVars
    /\ UNCHANGED <<stocks_hold_num, overflow_checks, date, end_date, run_hold,
                    trade_stocks, portfolios, select_ret>>

RunCalcPortfolio ==
    RunCall(RunQueryAnswers, RunSettleAnswers, RunCrawlerAnswers, RunAnalyzeAnswers)

RECURSIVE SettledLoop(_, _, _)
\* for stock_info in &portfolio.stocks_settled; st: status, run_hold, trade_stocks
SettledLoop(todo, d, st) ==
    IF todo = <<>> \/ st.status # "ok" THEN st
    ELSE LET id == Head(todo).stock_id
         IN  IF id \notin DOMAIN st.run_hold
             THEN [st EXCEPT !.status = "panic"]
             ELSE SettledLoop(Tail(todo), d,
                      [status |-> "ok",
                       run_hold |-> MapRemove(st.run_hold, id),
                       trade_stocks |->
                           MapInsert(st.trade_stocks, id,
                                     Append(IF id \in DOMAIN st.trade_stocks
                                            THEN st.trade_stocks[id] ELSE <<>>,
                                            TradePair(st.run_hold[id], d)))])

\* variant of SelectedLoop: the runner does not record the stocks bought
SelectedLoopRecordsNothing(todo, d, hold) == hold

RECURSIVE SelectedLoop(_, _, _)
\* for stock_info in &portfolio.stocks_selected
SelectedLoop(todo, d, hold) ==
    IF todo = <<>> THEN hold
    ELSE SelectedLoop(Tail(todo), d, MapInsert(hold, Head(todo).stock_id, d))

\* the rest of the loop body: unwrap, the two loops over the snapshot, push, succ
RunRecord ==
    /\ run_pc = "called"
    /\ IF ret \notin {"Some", "None"}
       THEN /\ run_pc' = "aborted"
            /\ UNCHANGED <<date, run_hold, trade_stocks, portfolios>>
       ELSE IF ret = "None"
       THEN /\ run_pc' = "loop"
            /\ date' = date + 1
            /\ UNCHANGED <<run_hold, trade_stocks, portfolios>>
       ELSE \E st \in {SettledLoop(portfolio.stocks_settled, date,
                                   [status |-> "ok", run_hold |-> run_hold,
                                    trade_stocks |-> trade_stocks])} :
              IF st.status # "ok"
              THEN /\ run_pc' = "aborted"
                   /\ run_hold' = st.run_hold
                   /\ trade_stocks' = st.trade_stocks
                   /\ UNCHANGED <<date, portfolios>>
              ELSE /\ run_pc' = "loop"
                   /\ run_hold' = SelectedLoop(portfolio.stocks_selected, date, st.run_hold)
                   /\ trade_stocks' = st.trade_stocks
                   /\ portfolios' = PushSnapshot(portfolios, portfolio)
                   /\ date' = date + 1
    /\ ret' = IF run_pc' = "aborted" THEN ret ELSE "dropped"
    /\ portfolio' = NoPortfolio
    /\ env' = NoEnv
    /\ pre' = EngineState(liquidity, stocks_hold)
    /\ mid' = EngineState(liquidity, stocks_hold)
    /\ UNCHANGED strategyVars
    /\ UNCHANGED <<engineVars, overflow_checks, end_date, select_ret, calls>>

\* while date <= self.end_date ends
RunFinish ==
    /\ run_pc = "loop"
    /\ ~InRange(date, end_date)
    /\ run_pc' = "done"
    /\ UNCHANGED strategyVars
    /\ UNCHANGED <<engineVars, callVars, overflow_checks, date, end_date, run_hold,
                    trade_stocks, portfolios, select_ret, calls>>

NextRun == RunCalcPortfolio \/ RunRecord \/ RunFinish

SpecRun == InitRun /\ [][NextRun]_vars

(***************************************************************************)
(* The loop of Backtesting::run and its end, over a universe of one symbol *)
(* whose record is there or missing and whose analysis can fail.           *)
(***************************************************************************)
LoopQueryAnswers == {NoRecord, RawData(9, 2)}
LoopSettleAnswers == {"true", "false"}
LoopCrawlerAnswers == {CrawlerOk(<<"0050">>)}
LoopAnalyzeAnswers == {Score(1, 0), StrategyFailure}

LoopCalcPortfolio ==
    RunCall(LoopQueryAnswers, LoopSettleAnswers, LoopCrawlerAnswers, LoopAnalyzeAnswers)

NextLoop == LoopCalcPortfolio \/ RunRecord \/ RunFinish

\* run is one thread that executes its statements one after the other: a step
\* that can be taken is taken
SpecLoop == InitRun /\ [][NextLoop]_vars /\ WF_vars(NextLoop)

(***************************************************************************)
(* Decision::get_select_stocks on its own, for every universe of three     *)
(* symbols, every score and every set of positions the engine can hold.    *)
(***************************************************************************)
SelectScores == {Score(p, v) : p \in -1..MaxPoint, v \in 0..MaxVolume}
SelectAnalyzeAnswers == SelectScores \cup {StrategyFailure}
SelectCrawlerAnswers ==
    {CrawlerOk(<<"0050", "0051", "0052">>), CrawlerOk(<<"0052", "0051", "0050">>),
     CrawlerOk(<<"0051", "0052", "0051">>), CrawlerFailure}

\* the engine between two calls: at most stocks_hold_num positions
InitSelect ==
    /\ liquidity = InitLiquidity
    /\ stocks_hold_num \in 1..MaxHoldNum
    /\ \E H \in SUBSET Stocks :
          /\ Cardinality(H) <= stocks_hold_num
          /\ stocks_hold = [s \in H |-> [date |-> 1, num |-> 1]]
    /\ ret = "new"
    /\ portfolio = NoPortfolio
    /\ env = NoEnv
    /\ pre = EngineState(liquidity, stocks_hold)
    /\ mid = EngineState(liquidity, stocks_hold)
    /\ overflow_checks \in BOOLEAN
    /\ date = 2
    /\ end_date = MaxCalls
    /\ run_hold = <<>>
    /\ trade_stocks = <<>>
    /\ portfolios = <<>>
    /\ run_pc = "off"
    /\ select_ret = NoSelectRet
    /\ calls = <<>>
    /\ NoStrategy

\* self.get_select_stocks(date)
GetSelectStocks ==
    /\ select_ret = NoSelectRet
    /\ \E c \in SelectCrawlerAnswers :
       \E an \in [Range(c.list) -> SelectAnalyzeAnswers] :
          /\ select_ret' = get_select_stocks(c, PadAn(an), stocks_hold, stocks_hold_num)
          /\ env' = Env(<<>>, PadQ(<<>>), PadSettle(<<>>), c, PadAn(an))
    /\ UNCHANGED <<engineVars, ret, portfolio, pre, mid, overflow_checks, date>>
    /\ UNCHANGED runVars
    /\ UNCHANGED strategyVars

NextSelect == GetSelectStocks

SpecSelect == InitSelect /\ [][NextSelect]_vars

(***************************************************************************)
(* The strategy on its own: the store is filled with the records of one    *)
(* symbol, one per day, and transform and analyze are applied to it.       *)
(***************************************************************************)
\* the records the symbol can have on a day: prices near 10 with volume 1, and
\* prices near 12 with volume 2
DayRecords(d) == {DatedRawData(d, 10, 11, 9, 10, 1), DatedRawData(d, 11, 13, 11, 12, 2)}
\* the quiet record of a day
QuietRecord(d) == DatedRawData(d, 10, 11, 9, 10, 1)

\* the prices have rallied since day PERIOD: some day from then on has a record
\* that is not the quiet one
Rallied(db) == \E d \in PERIOD..Len(db) : db[d] # QuietRecord(d)

\* the records the next day can have: any of DayRecords in the first MaxLead
\* days, the quiet record up to day PERIOD - 1, and then one rally: any of
\* DayRecords until the rally is over, the quiet record after it
RecordsOfDay(db) ==
    LET d == Len(db) + 1
    IN  IF d <= MaxLead THEN DayRecords(d)
        ELSE IF d < PERIOD THEN {QuietRecord(d)}
        ELSE IF db[d - 1] # QuietRecord(d - 1) \/ ~Rallied(db) THEN DayRecords(d)
        ELSE {QuietRecord(d)}

\* assess_date as the number of days after the last record
AssessOffsets == {0, 1, 10}

InitStrategy ==
    /\ liquidity = InitLiquidity
    /\ stocks_hold = <<>>
    /\ stocks_hold_num = 1
    /\ ret = "new"
    /\ portfolio = NoPortfolio
    /\ env = NoEnv
    /\ pre = EngineState(InitLiquidity, <<>>)
    /\ mid = EngineState(InitLiquidity, <<>>)
    /\ overflow_checks = FALSE
    /\ date = 1
    /\ end_date = MaxCalls
    /\ run_hold = <<>>
    /\ trade_stocks = <<>>
    /\ portfolios = <<>>
    /\ run_pc = "strategy"
    /\ select_ret = NoSelectRet
    /\ calls = <<>>
    /\ NoStrategy

\* BackendOp::batch_insert of the record of the next day
BatchInsert ==
    /\ run_pc = "strategy"
    /\ Len(store) < MaxRecords
    /\ \E r \in RecordsOfDay(store) : store' = Append(store, r)
    /\ transformed' = NotTransformed
    /\ analyzed' = NotAnalyzedYet
    /\ checked' = NotChecked
    /\ UNCHANGED <<engineVars, callVars, overflow_checks, date, select_ret>>
    /\ UNCHANGED runVars
    /\ UNCHANGED <<storeVars, update>>

\* BollingerBandView::transform(&records) on all the records of the symbol
Transform ==
    /\ run_pc = "strategy"
    /\ transformed = NotTransformed
    /\ analyzed = NotAnalyzedYet
    /\ checked = NotChecked
    /\ transformed' = ViewsOk(transform(store))
    /\ UNCHANGED <<store, analyzed, checked>>
    /\ UNCHANGED <<engineVars, callVars, overflow_checks, date, select_ret>>
    /\ UNCHANGED runVars
    /\ UNCHANGED <<storeVars, update>>

\* strategy.analyze(stock_id, assess_date), the store answering or failing
Analyze ==
    /\ run_pc = "strategy"
    /\ transformed = NotTransformed
    /\ analyzed = NotAnalyzedYet
    /\ checked = NotChecked
    /\ \E off \in AssessOffsets, ok \in BOOLEAN :
          /\ ~ok => off = 0
          /\ analyzed' = [kind |-> IF ok THEN "ok" ELSE "err",
                          assess_date |-> Len(store) + off,
                          score |-> analyze(store, ok, Len(store) + off)]
    /\ UNCHANGED <<store, transformed, checked>>
    /\ UNCHANGED <<engineVars, callVars, overflow_checks, date, select_ret>>
    /\ UNCHANGED runVars
    /\ UNCHANGED <<storeVars, update>>

\* hold_date as the number of days before assess_date
HoldOffsets == {1, 2, 5}

\* assess_date of settle_check as the number of days after the last record
SettleOffsets == {0, 1}

\* strategy.settle_check(stock_id, hold_date, assess_date), the store answering or
\* failing
SettleCheck ==
    /\ run_pc = "strategy"
    /\ transformed = NotTransformed
    /\ analyzed = NotAnalyzedYet
    /\ checked = NotChecked
    /\ \E off \in SettleOffsets, held \in HoldOffsets, ok \in BOOLEAN :
          /\ ~ok => (off = 0 /\ held = 1)
          /\ checked' = [kind |-> IF ok THEN "ok" ELSE "err",
                         hold_date |-> Len(store) + off - held,
                         assess_date |-> Len(store) + off,
                         settle |-> settle_check(store, ok, Len(store) + off - held,
                                                 Len(store) + off)]
    /\ UNCHANGED <<store, transformed, analyzed>>
    /\ UNCHANGED <<engineVars, callVars, overflow_checks, date, select_ret>>
    /\ UNCHANGED runVars
    /\ UNCHANGED <<storeVars, update>>

NextStrategy == BatchInsert \/ Transform \/ Analyze \/ SettleCheck

SpecStrategy == InitStrategy /\ [][NextStrategy]_vars

(***************************************************************************)
(* The store on its own: records of the symbols of StoreSymbols are        *)
(* inserted for the days 1..MaxDay, and the tree is queried.               *)
(***************************************************************************)
InitStore ==
    /\ liquidity = InitLiquidity
    /\ stocks_hold = <<>>
    /\ stocks_hold_num = 1
    /\ ret = "new"
    /\ portfolio = NoPortfolio
    /\ env = NoEnv
    /\ pre = EngineState(InitLiquidity, <<>>)
    /\ mid = EngineState(InitLiquidity, <<>>)
    /\ overflow_checks = FALSE
    /\ date = 1
    /\ end_date = MaxCalls
    /\ run_hold = <<>>
    /\ trade_stocks = <<>>
    /\ portfolios = <<>>
    /\ run_pc = "store"
    /\ select_ret = NoSelectRet
    /\ calls = <<>>
    /\ NoStrategy

\* backend_op.batch_insert(&records) with one record
StoreInsert ==
    /\ run_pc = "store"
    /\ \E stock_id \in StoreSymbols, d \in 1..MaxDay :
          /\ Key(stock_id, d) \notin DOMAIN db_op
          /\ db_op' = batch_insert(db_op, stock_id, d)
    /\ queried' = NotQueriedYet
    /\ UNCHANGED <<engineVars, callVars, overflow_checks, date, select_ret>>
    /\ UNCHANGED runVars
    /\ UNCHANGED <<store, transformed, analyzed, checked, update>>

\* backend_op.query_by_range(stock_id, start_date, end_date), as its callers call
\* it: start_date is not after end_date
QueryByRange ==
    /\ run_pc = "store"
    /\ queried = NotQueriedYet
    /\ \E stock_id \in StoreSymbols, from \in 1..MaxDay, to \in 1..MaxDay :
          /\ from <= to
          /\ queried' = [op |-> "query_by_range", stock_id |-> stock_id,
                         start_date |-> from, end_date |-> to,
                         records |-> sled_query_by_range(db_op, stock_id, from, to)]
    /\ UNCHANGED db_op
    /\ UNCHANGED <<engineVars, callVars, overflow_checks, date, select_ret>>
    /\ UNCHANGED runVars
    /\ UNCHANGED <<store, transformed, analyzed, checked, update>>

\* backend_op.query_all(stock_id)
QueryAll ==
    /\ run_pc = "store"
    /\ queried = NotQueriedYet
    /\ \E stock_id \in StoreSymbols :
          queried' = [op |-> "query_all", stock_id |-> stock_id,
                      start_date |-> 0, end_date |-> 0,
                      records |-> query_all(db_op, stock_id)]
    /\ UNCHANGED db_op
    /\ UNCHANGED <<engineVars, callVars, overflow_checks, date, select_ret>>
    /\ UNCHANGED runVars
    /\ UNCHANGED <<store, transformed, analyzed, checked, update>>

NextStore == StoreInsert \/ QueryByRange \/ QueryAll

SpecStore == InitStore /\ [][NextStore]_vars

(***************************************************************************)
(* Utils::update_raw_data(start_date, end_date), over a crawler that       *)
(* answers, fails, or reports the rate limit, and a store that can fail.   *)
(***************************************************************************)
\* what get_stock_list answers: Ok(stock_list) or an error
UpdateLists == {<<>>, <<"006">>, <<"005", "0050">>, <<"0050", "006", "005">>}
\* what get_stock_data answers: Ok(records), here the days of the records, or
\* one of the errors of crawler::Error
UpdateRecords == {<<>>, <<1>>, <<1, 2>>}
UpdateErrors == {"RateLimitReached", "BadRequest", "Unknown"}

InitUpdate ==
    /\ liquidity = InitLiquidity
    /\ stocks_hold = <<>>
    /\ stocks_hold_num = 1
    /\ ret = "new"
    /\ portfolio = NoPortfolio
    /\ env = NoEnv
    /\ pre = EngineState(InitLiquidity, <<>>)
    /\ mid = EngineState(InitLiquidity, <<>>)
    /\ overflow_checks = FALSE
    /\ date = 1
    /\ end_date = MaxCalls
    /\ run_hold = <<>>
    /\ trade_stocks = <<>>
    /\ portfolios = <<>>
    /\ run_pc = "update"
    /\ select_ret = NoSelectRet
    /\ calls = <<>>
    /\ store = <<>>
    /\ transformed = NotTransformed
    /\ analyzed = NotAnalyzedYet
    /\ checked = NotChecked
    /\ NoStore
    /\ update = Update("get_stock_list", <<>>, 0, <<>>, "running")

\* the state of update_raw_data when the for loop comes to position idx
NextStock(stock_list, idx, data) ==
    IF idx > Len(stock_list) THEN Update("returned", stock_list, idx, data, "Ok")
    ELSE Update("get_stock_data", stock_list, idx, data, "running")

\* let stock_list = self.crawler.get_stock_list()?
GetStockList ==
    /\ update.pc = "get_stock_list"
    /\ \/ \E stock_list \in UpdateLists : update' = NextStock(stock_list, 1, <<>>)
       \/ update' = Update("returned", <<>>, 0, <<>>, "Crawler")
    /\ UNCHANGED <<engineVars, callVars, overflow_checks, date, select_ret>>
    /\ UNCHANGED runVars
    /\ UNCHANGED <<store, transformed, analyzed, checked, storeVars>>

\* data.push((stock_id.clone(), record)) for the records of an answer
Pushed(data, stock_id, days) ==
    data \o [i \in DOMAIN days |-> StoredRecord(stock_id, days[i])]

\* variant of OnRateLimit: the symbol is given up, the loop goes to the next one
OnRateLimitSkip(u) == NextStock(u.stock_list, u.idx + 1, u.data)

\* Err(crawler::Error::RateLimitReached): thread::sleep, then continue
OnRateLimit(u) == [u EXCEPT !.pc = "sleep"]

\* match self.crawler.get_stock_data(&args)
GetStockData ==
    /\ update.pc = "get_stock_data"
    /\ \/ \E days \in UpdateRecords :
             update' = [update EXCEPT !.pc = "batch_insert",
                            !.data = Pushed(update.data, update.stock_list[update.idx], days)]
       \/ \E err \in UpdateErrors :
             update' = IF err = "RateLimitReached" THEN OnRateLimit(update)
                       ELSE [update EXCEPT !.pc = "returned", !.ret = "Crawler"]
    /\ UNCHANGED <<engineVars, callVars, overflow_checks, date, select_ret>>
    /\ UNCHANGED runVars
    /\ UNCHANGED <<store, transformed, analyzed, checked, storeVars>>

\* thread::sleep(Duration::from_secs(60 * 60)) is over: continue
Sleep ==
    /\ update.pc = "sleep"
    /\ update' = [update EXCEPT !.pc = "get_stock_data"]
    /\ UNCHANGED <<engineVars, callVars, overflow_checks, date, select_ret>>
    /\ UNCHANGED runVars
    /\ UNCHANGED <<store, transformed, analyzed, checked, storeVars>>

RECURSIVE InsertAll(_, _)
\* batch_insert(&data): every record of data, in order
InsertAll(tree, data) ==
    IF data = <<>> THEN tree
    ELSE InsertAll(batch_insert(tree, Head(data).stock_id, Head(data).date), Tail(data))

\* self.backend_op.batch_insert(&data)?
UpdateInsert ==
    /\ update.pc = "batch_insert"
    /\ \/ /\ db_op' = InsertAll(db_op, update.data)
          /\ update' = NextStock(update.stock_list, update.idx + 1, update.data)
       \/ /\ update' = [update EXCEPT !.pc = "returned", !.ret = "Backend"]
          /\ UNCHANGED db_op
    /\ UNCHANGED queried
    /\ UNCHANGED <<engineVars, callVars, overflow_checks, date, select_ret>>
    /\ UNCHANGED runVars
    /\ UNCHANGED <<store, transformed, analyzed, checked>>

NextUpdate == GetStockList \/ GetStockData \/ Sleep \/ UpdateInsert

\* update_raw_data runs on one thread, which takes its next step
SpecUpdate == InitUpdate /\ [][NextUpdate]_vars /\ WF_vars(NextUpdate)

(***************************************************************************)
(* Properties of calc_portfolio.  A state right after a call has ret, the  *)
(* snapshot, the answers (env) and the engine state before (pre), between  *)
(* the settle and the hold phase (mid) and after the call.                 *)
(***************************************************************************)
RECURSIVE HeldValue(_, _, _)
\* sum over the symbols S of hold[s].num * floor((high + low) / 2) of the record q[s]
HeldValue(S, hold, q) ==
    IF S = {} THEN 0
    ELSE LET s == CHOOSE x \in S : TRUE
         IN  hold[s].num * ((q[s].high + q[s].low) \div 2) + HeldValue(S \ {s}, hold, q)

\* the call the state comes after returned a value or panicked
Returned == ret \notin {"new", "dropped"}

\* every symbol held when the call began has a record on the assess date
AllHeldHaveRecord == \A s \in DOMAIN pre.stocks_hold : env.q[s].kind = "some"

\* C1: liquidity conservation -- for every call that returns a snapshot, the
\* engine liquidity after the call is the liquidity before it, minus num * price
\* over stocks_selected, plus num * price over stocks_settled, and the snapshot's
\* liquidity field is the engine liquidity after the call.
C1_LiquidityConservation ==
    ret = "Some" =>
        /\ liquidity = pre.liquidity - Worth(portfolio.stocks_selected)
                                     + Worth(portfolio.stocks_settled)
        /\ portfolio.liquidity = liquidity

\* C2: fund invariant -- for every snapshot, liquidity + num * price over
\* stocks_hold + num * price over stocks_selected is the liquidity before the call
\* plus the value, at floor((high + low) / 2) of the assess date, of every
\* position held before the call.
C2_FundInvariant ==
    ret = "Some" =>
        liquidity + Worth(portfolio.stocks_hold) + Worth(portfolio.stocks_selected)
            = pre.liquidity + HeldValue(DOMAIN pre.stocks_hold, pre.stocks_hold, env.q)

\* C3 as stated: when every held symbol has a record the call returns a snapshot,
\* and when some held symbol has no record it returns None.
C3_SnapshotIffRecords ==
    Returned =>
        /\ AllHeldHaveRecord => ret = "Some"
        /\ (\E s \in DOMAIN pre.stocks_hold : env.q[s].kind = "none") => ret = "None"

\* C3: when every held symbol has a record, calc_portfolio never returns None: it
\* returns a snapshot unless the call fails, with Error::Backend (a store query
\* failed), Error::Strategy (settle_check or analyze failed),
\* Error::BackendRecordNotFound (a selected symbol has no record) or a panic (a
\* selected symbol's price is 0, or an integer overflow in a build that checks
\* overflow).  When some held symbol has no record and no query of a held symbol
\* fails, it returns None and no snapshot.
C3_SnapshotUnlessFailure ==
    Returned =>
        /\ AllHeldHaveRecord =>
              /\ ret \in {"Some", "Backend", "Strategy", "BackendRecordNotFound", "panic"}
              /\ ret = "Backend" => \E s \in Stocks : env.q[s].kind = "err"
              /\ ret = "Strategy" =>
                    \E s \in Stocks : env.settle[s] = "err" \/ env.an[s].kind = "err"
              /\ ret = "BackendRecordNotFound" =>
                    \E s \in Stocks \ DOMAIN pre.stocks_hold : env.q[s].kind = "none"
              /\ ret = "panic" =>
                    \/ overflow_checks
                    \/ \E s \in Stocks : /\ env.q[s].kind = "some"
                                         /\ env.q[s].high + env.q[s].low < 2
        /\ (/\ ~AllHeldHaveRecord
            /\ \A s \in DOMAIN pre.stocks_hold : env.q[s].kind # "err") =>
              ret = "None" /\ portfolio = NoPortfolio

\* a call with positions held, all with a record, that returns a snapshot
C3_Witness ==
    /\ ret = "Some"
    /\ pre.stocks_hold # <<>>
    /\ AllHeldHaveRecord

\* C4: capacity bound -- in every snapshot len(stocks_hold) + len(stocks_selected)
\* is at most stocks_hold_num, and the engine never has more than stocks_hold_num
\* open positions, after any sequence of calls.
C4_CapacityBound ==
    /\ Cardinality(DOMAIN stocks_hold) <= stocks_hold_num
    /\ ret = "Some" =>
          Len(portfolio.stocks_hold) + Len(portfolio.stocks_selected) <= stocks_hold_num

\* the capacity is what ends the selection: a symbol with a positive point that
\* is not held is left out of a snapshot that fills the capacity
C4_Witness ==
    /\ ret = "Some"
    /\ Len(portfolio.stocks_hold) + Len(portfolio.stocks_selected) = stocks_hold_num
    /\ portfolio.stocks_selected # <<>>
    /\ \E s \in Stocks \ (DOMAIN stocks_hold) :
          env.an[s].kind = "ok" /\ env.an[s].point > 0

\* C5: no symbol is in both stocks_hold and stocks_selected of a snapshot: a
\* symbol held when the call began is selected only if the call settled it first,
\* and the entry of a position that stays held is not touched.
C5_HeldNotSelected ==
    ret = "Some" =>
        /\ Ids(portfolio.stocks_hold) \cap Ids(portfolio.stocks_selected) = {}
        /\ \A s \in Ids(portfolio.stocks_selected) \cap DOMAIN pre.stocks_hold :
              s \in Ids(portfolio.stocks_settled)
        /\ \A s \in Ids(portfolio.stocks_hold) :
              s \in DOMAIN stocks_hold /\ stocks_hold[s] = pre.stocks_hold[s]

\* a held symbol has a positive point and there is room, and it is not selected
C5_Witness ==
    /\ ret = "Some"
    /\ Len(portfolio.stocks_hold) + Len(portfolio.stocks_selected) < stocks_hold_num
    /\ \E s \in Ids(portfolio.stocks_hold) :
          env.an[s].kind = "ok" /\ env.an[s].point > 0

\* the snapshots calc_portfolio has returned so far in a run of Backtesting::run
Snapshots ==
    IF run_pc = "called" /\ ret = "Some" THEN Append(portfolios, portfolio) ELSE portfolios

Greater(lhs, rhs) ==
    \/ lhs.point > rhs.point
    \/ lhs.point = rhs.point /\ lhs.trading_volume > rhs.trading_volume

\* the entries of the stock list that are not held and have a positive point
Candidates ==
    {i \in DOMAIN env.crawler.list :
        /\ env.crawler.list[i] \notin DOMAIN stocks_hold
        /\ env.an[env.crawler.list[i]].point > 0}

\* C7: ranking -- stocks_selected is made of entries of the universe that are not
\* held and have point > 0, as many as there are such entries up to the free
\* capacity (stocks_hold_num minus the number of held positions), in
\* non-increasing Score order (point first, trading_volume as tie-break), and no
\* such entry left unselected has a Score strictly greater than a selected one.
C7_Ranking ==
    select_ret.status = "ok" =>
        LET sel == select_ret.stocks_selected
            free == stocks_hold_num - Cardinality(DOMAIN stocks_hold)
        IN  /\ \A k \in DOMAIN sel : \E i \in Candidates : env.crawler.list[i] = sel[k]
            /\ Len(sel) = IF Cardinality(Candidates) < free
                           THEN Cardinality(Candidates) ELSE free
            /\ \A k, l \in DOMAIN sel : k < l => ~Greater(env.an[sel[l]], env.an[sel[k]])
            /\ \A i \in Candidates :
                  env.crawler.list[i] \notin Range(sel) =>
                      \A k \in DOMAIN sel :
                          ~Greater(env.an[env.crawler.list[i]], env.an[sel[k]])

\* two symbols with the same point are selected in the order of their
\* trading_volume, against the order of the stock list, and a third candidate is
\* left out
C7_Witness ==
    /\ select_ret.status = "ok"
    /\ Len(select_ret.stocks_selected) = 2
    /\ Cardinality(Candidates) = 3
    /\ \E i, j \in Candidates :
          /\ i < j
          /\ env.crawler.list[j] = select_ret.stocks_selected[1]
          /\ env.crawler.list[i] = select_ret.stocks_selected[2]
          /\ env.an[env.crawler.list[i]].point = env.an[env.crawler.list[j]].point

\* C8: a symbol whose Score has point <= 0 is never selected; when every symbol of
\* the universe has point <= 0, stocks_selected is empty and the selection phase
\* leaves liquidity (and the holdings) as the settle phase left them.
C8_NoBuyAtNonPositivePoint ==
    ret = "Some" =>
        /\ \A i \in DOMAIN portfolio.stocks_selected :
              /\ env.an[portfolio.stocks_selected[i].stock_id].kind = "ok"
              /\ env.an[portfolio.stocks_selected[i].stock_id].point > 0
        /\ (\A i \in DOMAIN env.crawler.list : env.an[env.crawler.list[i]].point <= 0) =>
              /\ portfolio.stocks_selected = <<>>
              /\ liquidity = mid.liquidity
              /\ stocks_hold = mid.stocks_hold

\* a universe whose symbols have point 0 or less, one of them point 0, with room
\* in the engine
C8_Witness ==
    /\ ret = "Some"
    /\ Cardinality(DOMAIN stocks_hold) < stocks_hold_num
    /\ \A i \in DOMAIN env.crawler.list : env.an[env.crawler.list[i]].point <= 0
    /\ \E i \in DOMAIN env.crawler.list :
          /\ env.an[env.crawler.list[i]].point = 0
          /\ env.crawler.list[i] \notin DOMAIN stocks_hold

\* C9: selection sizing -- with n >= 1 symbols selected and liquidity L at the
\* start of the selection phase, every selected symbol has price
\* floor((high + low) / 2) of its record and num floor(floor(L / n) / price), the
\* budget floor(L / n) being the same for all of them; liquidity is debited
\* num * price per entry and the symbol is held with the assess date as entry date.
C9_SelectionSizing ==
    (ret = "Some" /\ portfolio.stocks_selected # <<>>) =>
        LET sel == portfolio.stocks_selected
            budget == mid.liquidity \div Len(sel)
        IN  /\ portfolio.date = date
            /\ \A i \in DOMAIN sel :
                  LET record == env.q[sel[i].stock_id]
                  IN  /\ record.kind = "some"
                      /\ sel[i].price = (record.high + record.low) \div 2
                      /\ sel[i].num = budget \div sel[i].price
                      /\ sel[i].stock_id \in DOMAIN stocks_hold
                      /\ stocks_hold[sel[i].stock_id] = [date |-> date, num |-> sel[i].num]
            /\ liquidity = mid.liquidity - Worth(sel)

\* two symbols of different prices are bought in one call, after a position was
\* settled in it
C9_Witness ==
    /\ ret = "Some"
    /\ Len(portfolio.stocks_selected) = 2
    /\ portfolio.stocks_selected[1].price # portfolio.stocks_selected[2].price
    /\ portfolio.stocks_selected[2].num > 0
    /\ portfolio.stocks_settled # <<>>

\* C10: settle phase -- every held symbol whose settle_check is true gets one
\* entry in stocks_settled, with the num of its position and price
\* floor((high + low) / 2) of its record, is removed from the holdings and is not in
\* stocks_hold of the snapshot; liquidity is credited num * price for each; a held
\* symbol whose settle_check is false is not settled and keeps its position.
C10_SettlePhase ==
    ret = "Some" =>
        /\ \A s \in DOMAIN pre.stocks_hold :
              IF env.settle[s] = "true"
              THEN /\ Cardinality({i \in DOMAIN portfolio.stocks_settled :
                                      portfolio.stocks_settled[i].stock_id = s}) = 1
                   /\ \A i \in DOMAIN portfolio.stocks_settled :
                         portfolio.stocks_settled[i].stock_id = s =>
                             /\ portfolio.stocks_settled[i].num = pre.stocks_hold[s].num
                             /\ portfolio.stocks_settled[i].price
                                    = (env.q[s].high + env.q[s].low) \div 2
                   /\ s \notin DOMAIN mid.stocks_hold
                   /\ s \notin Ids(portfolio.stocks_hold)
              ELSE /\ s \notin Ids(portfolio.stocks_settled)
                   /\ s \in DOMAIN mid.stocks_hold
                   /\ mid.stocks_hold[s] = pre.stocks_hold[s]
        /\ Ids(portfolio.stocks_settled) \subseteq DOMAIN pre.stocks_hold
        /\ mid.liquidity = pre.liquidity + Worth(portfolio.stocks_settled)

\* C11: hold phase -- every symbol still held after the settle phase has exactly
\* one entry in stocks_hold, with the num of its position and price
\* floor((high + low) / 2) of its record, and stocks_hold has no other entry; the
\* position keeps its entry date and num through the call, and liquidity changes
\* after the settle phase only by the debits of the selection phase.
C11_HoldPhase ==
    ret = "Some" =>
        /\ Ids(portfolio.stocks_hold) = DOMAIN mid.stocks_hold
        /\ Len(portfolio.stocks_hold) = Cardinality(DOMAIN mid.stocks_hold)
        /\ \A i \in DOMAIN portfolio.stocks_hold :
              LET s == portfolio.stocks_hold[i].stock_id
              IN  /\ env.q[s].kind = "some"
                  /\ portfolio.stocks_hold[i].num = pre.stocks_hold[s].num
                  /\ portfolio.stocks_hold[i].price = (env.q[s].high + env.q[s].low) \div 2
                  /\ mid.stocks_hold[s] = pre.stocks_hold[s]
                  /\ s \in DOMAIN stocks_hold
                  /\ stocks_hold[s] = pre.stocks_hold[s]
        /\ liquidity = mid.liquidity - Worth(portfolio.stocks_selected)

\* one position is settled and another one stays held and is marked at the price
\* of its record
C11_Witness ==
    /\ ret = "Some"
    /\ portfolio.stocks_settled # <<>>
    /\ \E i \in DOMAIN portfolio.stocks_hold :
          /\ portfolio.stocks_hold[i].price > 0
          /\ portfolio.stocks_hold[i].num > 0

\* C12: whole-date skip -- when calc_portfolio returns None, liquidity and every
\* holding (symbol, entry date, num) are as before the call, there is no snapshot,
\* and neither settle_check, the crawler nor analyze was asked anything.
C12_SkipLeavesEngine ==
    ret = "None" =>
        /\ liquidity = pre.liquidity
        /\ stocks_hold = pre.stocks_hold
        /\ mid = pre
        /\ portfolio = NoPortfolio
        /\ \E s \in DOMAIN pre.stocks_hold : env.q[s].kind = "none"
        /\ \A s \in Stocks : env.settle[s] = "unasked" /\ env.an[s].kind = "unasked"
        /\ env.crawler.kind = "unasked"

\* a date is skipped while one held symbol has a record and another has none
C12_Witness ==
    /\ ret = "None"
    /\ \E s \in DOMAIN pre.stocks_hold : env.q[s].kind = "some"
    /\ \E s \in DOMAIN pre.stocks_hold : env.q[s].kind = "none"

\* the dates of the calc_portfolio calls a run has made, in the order of the calls
CallDates == [i \in DOMAIN calls |-> calls[i].date]

\* C13 as stated: a run that has ended has called calc_portfolio once for every
\* date from the start date (1) to end_date, in ascending order.
C13_EveryDateCalled ==
    run_pc \in {"done", "aborted"} => CallDates = [i \in 1..end_date |-> i]

\* C13: run calls calc_portfolio once per calendar date, in ascending order from
\* the start date (1), up to end_date or up to the first date whose call fails
\* (an Error or a panic), on which the run aborts; no call is made when the start
\* date is after end_date; and the run ends.
C13_CallsUntilEndOrFailure ==
    /\ [](/\ \A i \in DOMAIN calls : calls[i].date = i
          /\ Len(calls) <= end_date
          /\ \A i \in DOMAIN calls : i < Len(calls) => calls[i].ret \in {"Some", "None"}
          /\ run_pc = "done" =>
                /\ Len(calls) = end_date
                /\ \A i \in DOMAIN calls : calls[i].ret \in {"Some", "None"}
          /\ run_pc = "aborted" =>
                /\ calls # <<>>
                /\ calls[Len(calls)].ret \notin {"Some", "None"})
    /\ <>(run_pc \in {"done", "aborted"})

\* a run over two dates or more has ended after a date that was skipped
C13_Witness ==
    /\ run_pc = "done"
    /\ Len(calls) >= 2
    /\ \E i \in DOMAIN calls : calls[i].ret = "None"

\* the calls of a run whose loop body has been executed to its end
CompletedCalls ==
    IF run_pc \in {"called", "aborted"} THEN SubSeq(calls, 1, Len(calls) - 1) ELSE calls

ReturnedSnapshot(call) == call.ret = "Some"

\* the snapshots the completed calls returned, in the order of the calls
ReturnedSnapshots ==
    [i \in DOMAIN SelectSeq(CompletedCalls, ReturnedSnapshot) |->
        SelectSeq(CompletedCalls, ReturnedSnapshot)[i].portfolio]

\* C14: portfolios holds the snapshot of every date on which calc_portfolio
\* returned one, once each and as it was returned, and nothing for the other dates,
\* in strictly ascending date order; this holds at every point of the run, so a
\* snapshot once appended is never modified.
C14_PortfoliosAreTheSnapshots ==
    /\ portfolios = ReturnedSnapshots
    /\ \A i \in DOMAIN portfolios :
          /\ portfolios[i].date \in {CompletedCalls[k].date : k \in DOMAIN CompletedCalls}
          /\ \A j \in DOMAIN portfolios : i < j => portfolios[i].date < portfolios[j].date

\* a run has ended with two snapshots or more and with a date that has none
C14_Witness ==
    /\ run_pc = "done"
    /\ Len(portfolios) >= 2
    /\ Len(calls) > Len(portfolios)

FirstHeldQueryFails ==
    \E k \in DOMAIN env.order :
        /\ env.q[env.order[k]].kind = "err"
        /\ \A j \in 1..(k - 1) : env.q[env.order[j]].kind = "some"

\* C16: a failure of the store or of the strategy during calc_portfolio makes the
\* call return an error and no snapshot, Error::Backend for a query that fails,
\* Error::Strategy for a settle_check or an analyze that fails: a call that returns
\* a snapshot or None has met no failure, Backend and Strategy are returned only
\* for a failure of the store and of the strategy, and a failure the call meets
\* is returned (the call ends at the first failure, Error or panic, so that a
\* failure behind it is not met).
C16_FailureIsReturned ==
    Returned =>
        /\ ret = "Some" =>
              \A s \in Stocks : /\ env.q[s].kind # "err"
                                /\ env.settle[s] # "err"
                                /\ env.an[s].kind # "err"
        /\ ret = "None" => ~FirstHeldQueryFails
        /\ ret \in {"Backend", "Strategy", "BackendRecordNotFound"} => portfolio = NoPortfolio
        /\ ret = "Backend" => \E s \in Stocks : env.q[s].kind = "err"
        /\ ret = "Strategy" =>
              \E s \in Stocks : env.settle[s] = "err" \/ env.an[s].kind = "err"
        /\ FirstHeldQueryFails => ret = "Backend"
        /\ (\E s \in Stocks : env.settle[s] = "err") => ret = "Strategy"
        /\ (\E s \in Stocks : env.an[s].kind = "err") =>
              ret = "Strategy" \/ (ret = "panic" /\ overflow_checks)
        /\ (AllHeldHaveRecord /\ \E s \in Stocks : env.q[s].kind = "err") =>
              ret \in {"Backend", "BackendRecordNotFound", "panic"}

\* the query of a selected symbol fails after a position was settled in the call
C16_Witness ==
    /\ ret = "Backend"
    /\ AllHeldHaveRecord
    /\ \E s \in DOMAIN pre.stocks_hold : env.settle[s] = "true"

\* the call came to the selection phase: the crawler was asked for the universe
SelectionReached == Returned /\ env.crawler # CrawlerNotAsked

\* the symbols the selection phase chose in the call, in the order it chose them
Chosen == get_select_stocks(env.crawler, env.an, mid.stocks_hold,
                            stocks_hold_num).stocks_selected

\* the first chosen symbol whose query gives no usable record has no record
FirstChosenMissing ==
    \E k \in DOMAIN Chosen :
        /\ env.q[Chosen[k]].kind = "none"
        /\ \A j \in 1..(k - 1) : /\ env.q[Chosen[j]].kind = "some"
                                  /\ env.q[Chosen[j]].high + env.q[Chosen[j]].low >= 2

\* C17: a chosen symbol without record at assess_date is fatal -- a call that
\* returns a snapshot bought every chosen symbol from a record (none was skipped),
\* a call whose first chosen symbol without usable record has no record returns
\* Error::BackendRecordNotFound and no snapshot (or has panicked on the u32
\* arithmetic of an earlier symbol), and Error::BackendRecordNotFound is returned
\* for nothing else.
C17_MissingRecordIsFatal ==
    SelectionReached =>
        /\ ret = "Some" =>
              /\ [i \in DOMAIN portfolio.stocks_selected |->
                     portfolio.stocks_selected[i].stock_id] = Chosen
              /\ \A s \in Range(Chosen) : env.q[s].kind = "some"
        /\ FirstChosenMissing =>
              /\ portfolio = NoPortfolio
              /\ ret = "BackendRecordNotFound" \/ (ret = "panic" /\ overflow_checks)
        /\ ret = "BackendRecordNotFound" => FirstChosenMissing

\* the second chosen symbol has no record, after a first one that was bought
C17_Witness ==
    /\ SelectionReached
    /\ ret = "BackendRecordNotFound"
    /\ Len(Chosen) = 2
    /\ env.q[Chosen[1]].kind = "some"
    /\ env.q[Chosen[2]].kind = "none"

(***************************************************************************)
(* Properties of the strategy.                                             *)
(***************************************************************************)
\* view k of the transform carries the date, the prices and the volume of
\* record k + P - 1
CarriesRecord(P) ==
    \A k \in DOMAIN transformed.views :
        /\ k + P - 1 \in DOMAIN store
        /\ transformed.views[k].date = store[k + P - 1].date
        /\ transformed.views[k].open = store[k + P - 1].open
        /\ transformed.views[k].high = store[k + P - 1].high
        /\ transformed.views[k].low = store[k + P - 1].low
        /\ transformed.views[k].close = store[k + P - 1].close
        /\ transformed.views[k].volume = store[k + P - 1].trading_volume

\* n records yield max(0, n - P + 1) views
WarmUp(P) ==
    Len(transformed.views) = IF Len(store) - P + 1 > 0 THEN Len(store) - P + 1 ELSE 0

ReadRecords ==
    {i \in DOMAIN store : /\ store[i].date >= analyzed.assess_date - 76
                          /\ store[i].date <= analyzed.assess_date}

\* the dates of the views available to analyze in the trailing window ending at
\* assess_date: the records of the last 2 * ANALYZE_RANGE days that have 29 read
\* records or more before them
ViewDates ==
    {store[i].date : i \in {j \in ReadRecords :
        /\ Cardinality({k \in ReadRecords : k <= j}) >= 30
        /\ store[j].date >= analyzed.assess_date - 16}}

\* C19: with fewer than ANALYZE_RANGE = 8 views available in the trailing window
\* ending at assess_date, or with a most recent view whose date is not
\* assess_date, analyze returns Ok with the neutral score {point: 0,
\* trading_volume: 0}; analyze returns an error only when the store fails.
C19_NeutralWithoutViews ==
    /\ analyzed.kind = "ok" =>
          /\ analyzed.score.kind = "ok"
          /\ (Cardinality(ViewDates) < 8 \/ analyzed.assess_date \notin ViewDates) =>
                analyzed.score = [kind |-> "ok", point |-> 0, trading_volume |-> 0]
    /\ analyzed.kind = "err" => analyzed.score.kind = "err"

\* nine views, the last of the day before assess_date, after a rally of six days
C19_Witness ==
    /\ analyzed.kind = "ok"
    /\ Cardinality(ViewDates) = 9
    /\ analyzed.assess_date = Len(store) + 1
    /\ \A d \in 33..38 : store[d].close = 12
    /\ analyzed.score.point = 0

RECURSIVE PriceSum(_, _, _)
\* the sum of (high + low + close) ^ e over the records lo..hi of the store
PriceSum(lo, hi, e) ==
    IF lo > hi THEN 0
    ELSE (store[hi].high + store[hi].low + store[hi].close) ^ e + PriceSum(lo, hi - 1, e)

\* the SD of the view of record i, as 900 * 9 times its square: the population
\* variance of (high + low + close) / 3 over the 30 records up to i
Deviation(i) ==
    LET sum == PriceSum(i - 29, i, 1) IN 30 * PriceSum(i - 29, i, 2) - sum * sum

\* analyze was called for the date of the last record, with 8 views or more
AnalyzedLastDay ==
    /\ analyzed.kind = "ok"
    /\ Len(store) >= 37
    /\ analyzed.assess_date = store[Len(store)].date

\* among the last 8 views some view has a greater SD than the next newer one
SdNotMonotone ==
    \E i \in (Len(store) - 7)..(Len(store) - 1) : Deviation(i) > Deviation(i + 1)

\* C20: volatility filter -- analyze returns the neutral score whenever, among
\* the last ANALYZE_RANGE = 8 views ending at assess_date, some view has an SD
\* strictly greater than the SD of the next newer view; the views older than the
\* last 8 do not influence the result: it is the result of analyze on a store
\* without the records that only those views are made of.
C20_VolatilityFilter ==
    AnalyzedLastDay =>
        /\ SdNotMonotone =>
              analyzed.score = [kind |-> "ok", point |-> 0, trading_volume |-> 0]
        /\ analyzed.score =
              analyze(SubSeq(store, Len(store) - 36, Len(store)), TRUE, analyzed.assess_date)

\* the SD falls from the view of day 31 to the view of day 32, when the record of
\* day 2 leaves the window, and a rally of six days follows
C20_Witness ==
    /\ AnalyzedLastDay
    /\ Len(store) = 38
    /\ Deviation(31) > Deviation(32)
    /\ \A d \in 33..38 : store[d].close = 12
    /\ analyzed.score.point = 0

\* the representative price of record i lies in [sma + sd, sma + 2 * sd] of the
\* view of record i: with d = 30 * 3 * (price - sma), d >= 0 and
\* (30 * 3 * sd) ^ 2 <= d ^ 2 <= 4 * (30 * 3 * sd) ^ 2
InZone(i) ==
    LET d == 30 * PriceSum(i, i, 1) - PriceSum(i - 29, i, 1)
    IN  d >= 0 /\ d * d >= Deviation(i) /\ d * d <= 4 * Deviation(i)

\* the days among the last 8 whose representative price lies in the zone
ZoneDays == Cardinality({i \in (Len(store) - 7)..Len(store) : InZone(i)})

\* 30 * 3 times the sma of the newest view minus that of the oldest of the last 8,
\* and 30 * 3 times the sma of the oldest
SmaRise == PriceSum(Len(store) - 29, Len(store), 1) - PriceSum(Len(store) - 36, Len(store) - 7, 1)
SmaOldest == PriceSum(Len(store) - 36, Len(store) - 7, 1)

\* analyze came to the score: 8 views or more ending at assess_date, and the
\* volatility filter passed
Scored == AnalyzedLastDay /\ ~SdNotMonotone

\* C21 as stated: with in_buy_zone_ratio the fraction ZoneDays / 8 and rise_ratio
\* the percentage 100 * SmaRise / SmaOldest, analyze returns the neutral score
\* if rise_ratio <= 0 and otherwise point = round(in_buy_zone_ratio * rise_ratio),
\* trading_volume = the volume of the most recent view.
C21_PointIsRoundedFraction ==
    Scored =>
        IF SmaRise <= 0
        THEN analyzed.score = [kind |-> "ok", point |-> 0, trading_volume |-> 0]
        ELSE /\ analyzed.score.point =
                  (2 * ZoneDays * 100 * SmaRise + 8 * SmaOldest) \div (2 * 8 * SmaOldest)
             /\ analyzed.score.trading_volume = store[Len(store)].trading_volume

\* C21: with in_buy_zone_ratio the percentage 100 * ZoneDays / 8 and rise_ratio
\* the percentage 100 * SmaRise / SmaOldest, analyze returns the neutral score
\* if rise_ratio <= 0 and otherwise point = in_buy_zone_ratio * rise_ratio with
\* its fraction cut off, trading_volume = the volume of the most recent view.
C21_PointIsTruncatedPercentage ==
    Scored =>
        IF SmaRise <= 0
        THEN analyzed.score = [kind |-> "ok", point |-> 0, trading_volume |-> 0]
        ELSE /\ analyzed.score.point = (ZoneDays * 100 * 100 * SmaRise) \div (8 * SmaOldest)
             /\ analyzed.score.trading_volume = store[Len(store)].trading_volume

\* a score whose product has a fraction of one half or more, which is cut off
C21_Witness ==
    /\ Scored
    /\ SmaRise > 0
    /\ analyzed.score.point > 0
    /\ 2 * ((ZoneDays * 100 * 100 * SmaRise) % (8 * SmaOldest)) >= 8 * SmaOldest

\* the records settle_check reads for the dates it was called with: those of
\* the 2 * PERIOD days before hold_date and of the days up to assess_date
CheckedRecords ==
    {i \in DOMAIN store : /\ store[i].date >= checked.hold_date - 60
                          /\ store[i].date <= checked.assess_date}

\* the positions of the records whose views lie in [hold_date, assess_date]: the
\* records of these days that have 29 read records or more before them
CheckedViews ==
    LET read == CheckedRecords
    IN  {j \in read :
            /\ store[j].date >= checked.hold_date
            /\ Cardinality({k \in read : k <= j}) >= 30}

\* C22: settle_check returns Ok(false) whenever there is no view over
\* [hold_date, assess_date] or the last view is not of assess_date; it returns
\* an error only when the store fails.
C22_FalseWithoutViews ==
    /\ checked.kind = "ok" =>
          /\ checked.settle \in {"true", "false"}
          /\ (CheckedViews = {} \/ \A j \in CheckedViews : store[j].date # checked.assess_date)
                => checked.settle = "false"
    /\ checked.kind = "err" => checked.settle = "err"

\* views up to the day before assess_date, for which the answer was true the day
\* before
C22_Witness ==
    /\ checked.kind = "ok"
    /\ CheckedViews # {}
    /\ checked.assess_date = Len(store) + 1
    /\ checked.settle = "false"
    /\ settle_check(store, TRUE, checked.hold_date, Len(store)) = "true"

\* settle_check had views over [hold_date, assess_date] that end at assess_date
CheckedToAssessDate ==
    /\ checked.kind = "ok"
    /\ \E j \in CheckedViews : store[j].date = checked.assess_date

\* the positions of the first and of the last view of the window
FirstChecked == LET views == CheckedViews IN CHOOSE j \in views : \A k \in views : j <= k
LastChecked == LET views == CheckedViews IN CHOOSE j \in views : \A k \in views : j >= k

\* C23: trend-reversal exit -- when the views over [hold_date, assess_date] are
\* not empty and end at assess_date, settle_check returns true if the SMA of the
\* first view of the window exceeds the SMA of the view at assess_date, whatever
\* the weighted prices are.
C23_TrendReversalExit ==
    (/\ CheckedToAssessDate
     /\ PriceSum(FirstChecked - 29, FirstChecked, 1) > PriceSum(LastChecked - 29, LastChecked, 1))
        => checked.settle = "true"

\* the weighted price low + 0.75 * (high - low) of record i is below sma + sd of
\* the view of record i: with e = 4 * 90 * (weighted price - sma), not
\* (e >= 0 and e ^ 2 >= 16 * (90 * sd) ^ 2)
Weak(i) ==
    LET e == 90 * (store[i].low + 3 * store[i].high) - 4 * PriceSum(i - 29, i, 1)
    IN  e < 0 \/ e * e < 16 * Deviation(i)

\* the 3 most recent views of the window all have a weak price
WeakRun ==
    LET last == LastChecked
    IN  /\ Cardinality(CheckedViews) >= 3
        /\ \A j \in (last - 2)..last : Weak(j)

\* C24: weak-price exit -- when the views over [hold_date, assess_date] end at
\* assess_date, settle_check returns true when the 3 most recent of them all have
\* low + 0.75 * (high - low) < sma + sd, and false when the run of such views
\* counted backward from assess_date is shorter than 3 and the SMA of the first
\* view does not exceed the SMA of the last.
C24_WeakPriceExit ==
    CheckedToAssessDate =>
        /\ WeakRun => checked.settle = "true"
        /\ (/\ ~WeakRun
            /\ PriceSum(FirstChecked - 29, FirstChecked, 1)
                  <= PriceSum(LastChecked - 29, LastChecked, 1))
              => checked.settle = "false"

\* six views, of which exactly the last three have a weak price
C24_Witness ==
    /\ CheckedToAssessDate
    /\ Cardinality(CheckedViews) = 6
    /\ WeakRun
    /\ ~Weak(LastChecked - 3)
    /\ checked.settle = "true"

(***************************************************************************)
(* Properties of the store.                                                *)
(***************************************************************************)
\* a record of the symbol is stored for the day
Stored(stock_id, d) ==
    \E k \in DOMAIN db_op : db_op[k] = [stock_id |-> stock_id, date |-> d]

\* the records returned are in ascending date order
AscendingDates ==
    \A i, j \in DOMAIN queried.records :
        i < j => queried.records[i].date < queried.records[j].date

\* C25: query_by_range(symbol, start, end) returns exactly the stored records of
\* the symbol with start <= date <= end, both included, in ascending date order,
\* and no record of another symbol.
C25_RangeIsInclusive ==
    queried.op = "query_by_range" =>
        /\ \A i \in DOMAIN queried.records :
              /\ queried.records[i].stock_id = queried.stock_id
              /\ queried.start_date <= queried.records[i].date
              /\ queried.records[i].date <= queried.end_date
              /\ Stored(queried.stock_id, queried.records[i].date)
        /\ \A d \in queried.start_date..queried.end_date :
              Stored(queried.stock_id, d) =>
                  \E i \in DOMAIN queried.records : queried.records[i].date = d
        /\ AscendingDates

\* the range from 2020-01-31 to 2020-02-01 of a symbol that has both records,
\* in a store that also has records of a symbol it is a prefix of
C25_Witness ==
    /\ queried.op = "query_by_range"
    /\ queried.stock_id = "005"
    /\ queried.start_date = 2
    /\ queried.end_date = 3
    /\ Len(queried.records) = 2
    /\ Stored("005", 1)
    /\ Stored("0050", 2)

\* C26: query_all(symbol) returns exactly the records stored for the symbol, in
\* ascending date order, and no record inserted under another symbol, also when
\* one symbol is a string prefix of another.
C26_QueryAllOwnRecords ==
    queried.op = "query_all" =>
        /\ \A i \in DOMAIN queried.records :
              /\ queried.records[i].stock_id = queried.stock_id
              /\ Stored(queried.stock_id, queried.records[i].date)
        /\ \A d \in 1..MaxDay :
              Stored(queried.stock_id, d) =>
                  \E i \in DOMAIN queried.records : queried.records[i].date = d
        /\ AscendingDates

(***************************************************************************)
(* Properties of update_raw_data.                                          *)
(***************************************************************************)
\* C27: ingestion retry -- when get_stock_data fails with RateLimitReached the
\* same symbol is requested again after the sleep (update_raw_data goes on to the
\* next symbol only after the records of this one were inserted, and does not
\* return), any other error of get_stock_data makes update_raw_data return
\* Error::Crawler, an update that returns Ok has inserted the records of every
\* symbol, and if the crawler eventually stops answering RateLimitReached,
\* update_raw_data returns.
C27_RetryOnRateLimit ==
    /\ [][update.pc = "sleep" =>
             update' = [update EXCEPT !.pc = "get_stock_data"]]_vars
    /\ [][update.pc = "get_stock_data" =>
             \/ update'.pc = "sleep" /\ update'.idx = update.idx /\ update'.ret = "running"
             \/ update'.pc = "batch_insert" /\ update'.idx = update.idx
             \/ update'.pc = "returned" /\ update'.ret = "Crawler"]_vars
    /\ [](update.ret = "Ok" =>
             /\ update.idx = Len(update.stock_list) + 1
             /\ \A i \in DOMAIN update.data :
                   \E k \in DOMAIN db_op : db_op[k] = update.data[i])
    /\ (<>[](update.pc # "sleep")) => <>(update.pc = "returned")

\* the rate limit is reached for the second symbol, the records of the first
\* being inserted
C27_Witness ==
    /\ update.pc = "sleep"
    /\ update.idx = 2
    /\ update.data # <<>>
    /\ DOMAIN db_op # {}

\* C28: the retry is bounded -- update_raw_data makes a finite number of
\* get_stock_data attempts for a symbol and returns, also when the crawler
\* answers RateLimitReached every time.
C28_UpdateReturns == <>(update.pc = "returned")

(***************************************************************************)
(* Decision::calc_portfolio: the order of the three phases.                *)
(***************************************************************************)
\* the positions held before the call and not settled in it
KeptSymbols == DOMAIN pre.stocks_hold \ Ids(portfolio.stocks_settled)

\* the entries of the stock list with a positive point that are not kept
CandidatesAfterSettle ==
    {i \in DOMAIN env.crawler.list :
        /\ env.crawler.list[i] \notin KeptSymbols
        /\ env.an[env.crawler.list[i]].point > 0}

\* C29: phase order settle -> hold -> select within one call -- the budget of each
\* selected stock is floor((liquidity before the call + proceeds of the positions
\* settled in the call) / number selected) and liquidity ends at that sum minus
\* the buys; the number selected is the number of candidates up to stocks_hold_num
\* minus the positions not settled, so a slot freed by settling is free capacity;
\* and stocks_hold lists exactly the positions held before the call and not
\* settled in it.
C29_PhaseOrder ==
    ret = "Some" =>
        LET sel == portfolio.stocks_selected
            proceeds == Worth(portfolio.stocks_settled)
            free == stocks_hold_num - Cardinality(KeptSymbols)
        IN  /\ \A i \in DOMAIN sel :
                  sel[i].num = ((pre.liquidity + proceeds) \div Len(sel)) \div sel[i].price
            /\ liquidity = pre.liquidity + proceeds - Worth(sel)
            /\ Len(sel) = IF Cardinality(CandidatesAfterSettle) < free
                           THEN Cardinality(CandidatesAfterSettle) ELSE free
            /\ Ids(portfolio.stocks_hold) = KeptSymbols
            /\ Len(portfolio.stocks_hold) = Cardinality(KeptSymbols)

\* C29 with the sum of liquidity and proceeds taken in the u32 of the field
C29_PhaseOrderInU32 ==
    ret = "Some" =>
        LET sel == portfolio.stocks_selected
            sum == (pre.liquidity + Worth(portfolio.stocks_settled)) % U32Modulus
            free == stocks_hold_num - Cardinality(KeptSymbols)
        IN  /\ \A i \in DOMAIN sel : sel[i].num = (sum \div Len(sel)) \div sel[i].price
            /\ liquidity = sum - Worth(sel)
            /\ Len(sel) = IF Cardinality(CandidatesAfterSettle) < free
                           THEN Cardinality(CandidatesAfterSettle) ELSE free
            /\ Ids(portfolio.stocks_hold) = KeptSymbols
            /\ Len(portfolio.stocks_hold) = Cardinality(KeptSymbols)

\* every slot was taken before the call; one position is settled, another is
\* kept, and a stock is bought in the freed slot for more than the liquidity
\* before the call
C29_FreedSlotIsUsed ==
    /\ ret = "Some"
    /\ Cardinality(DOMAIN pre.stocks_hold) = stocks_hold_num
    /\ portfolio.stocks_settled # <<>>
    /\ portfolio.stocks_hold # <<>>
    /\ portfolio.stocks_selected # <<>>
    /\ Worth(portfolio.stocks_selected) > pre.liquidity

\* C30: error atomicity -- when calc_portfolio returns an error, liquidity and the
\* holdings are as before the call.
C30_ErrorLeavesStateUnchanged ==
    ret \in {"Backend", "Strategy", "BackendRecordNotFound"} =>
        /\ liquidity = pre.liquidity
        /\ stocks_hold = pre.stocks_hold

\* an error returned before handle_settle_stocks leaves the engine state as it was
C30_ErrorBeforeSettleIsAtomic ==
    (ret = "Backend" /\ \E s \in DOMAIN pre.stocks_hold : env.q[s].kind = "err") =>
        /\ liquidity = pre.liquidity
        /\ stocks_hold = pre.stocks_hold

(***************************************************************************)
(* Decision::handle_selected_stocks: the quantity computation.             *)
(***************************************************************************)
\* the chosen symbols whose record the buy loop read: every chosen symbol up to
\* it has a record
ReachedQuantity ==
    {i \in DOMAIN Chosen : \A j \in 1..i : env.q[Chosen[j]].kind = "some"}

\* C31: the selection phase never divides by zero -- every chosen symbol whose
\* record the buy loop reads has price floor((high + low) / 2) >= 1.
C31_PriceAtLeastOne ==
    SelectionReached =>
        \A i \in ReachedQuantity :
            (env.q[Chosen[i]].high + env.q[Chosen[i]].low) \div 2 >= 1

\* C32: no symbol is selected twice in one snapshot -- for any stock list, also
\* one that repeats a symbol, the entries of stocks_selected have different
\* stock ids, so what the call debits is the worth of the positions it opened.
C32_NoSymbolSelectedTwice ==
    ret = "Some" =>
        LET sel == portfolio.stocks_selected
        IN  /\ \A i, j \in DOMAIN sel : i # j => sel[i].stock_id # sel[j].stock_id
            /\ \A i \in DOMAIN sel :
                  /\ sel[i].stock_id \in DOMAIN stocks_hold
                  /\ stocks_hold[sel[i].stock_id].num = sel[i].num

\* C33: a symbol settled on a date is not bought back on the same date -- no
\* symbol is in both stocks_settled and stocks_selected of one snapshot.
C33_NoBuyBackOnSettleDate ==
    ret = "Some" =>
        Ids(portfolio.stocks_settled) \cap Ids(portfolio.stocks_selected) = {}

\* C34: every entry of stocks_selected, and every position of the holdings, has
\* quantity >= 1 -- a symbol whose price exceeds the budget of one stock is not
\* recorded and takes no slot.
C34_QuantityAtLeastOne ==
    /\ ret = "Some" =>
          \A i \in DOMAIN portfolio.stocks_selected : portfolio.stocks_selected[i].num >= 1
    /\ \A s \in DOMAIN stocks_hold : stocks_hold[s].num >= 1

(***************************************************************************)
(* Backtesting::run: the runner's map of open positions and the engine's.  *)
(***************************************************************************)
\* C35: runner/engine agreement -- whenever run is at the head of its loop or
\* has left it, its local stocks_hold has exactly the symbols of the engine's
\* holdings, each with the engine's entry date; every symbol of stocks_settled of
\* a snapshot run is about to record is in the local stocks_hold, and run aborts
\* only when calc_portfolio returned no Ok value.
C35_RunnerAgreesWithEngine ==
    /\ run_pc \in {"loop", "done"} =>
          /\ DOMAIN run_hold = DOMAIN stocks_hold
          /\ \A s \in DOMAIN run_hold : run_hold[s] = stocks_hold[s].date
    /\ (run_pc = "called" /\ ret = "Some") =>
          Ids(portfolio.stocks_settled) \subseteq DOMAIN run_hold
    /\ run_pc = "aborted" => ret \notin {"Some", "None"}

\* run has recorded a snapshot that settled a symbol and bought it back, after
\* which the symbol is held with the later entry date
C35_Witness ==
    /\ run_pc = "loop"
    /\ \E s \in DOMAIN run_hold :
          /\ s \in DOMAIN trade_stocks
          /\ s \in DOMAIN stocks_hold
          /\ run_hold[s] > 1
          /\ run_hold[s] = trade_stocks[s][Len(trade_stocks[s])][2]

(***************************************************************************)
(* Decision::calc_portfolio: what the precondition phase guarantees to the *)
(* settle and hold phases.  The store answers one call from one state: a   *)
(* symbol has the same answer (env.q) each time the call asks for it.      *)
(***************************************************************************)
\* the call went past has_trading_data: it asked settle_check or the crawler, or
\* it returned a snapshot
PreconditionPassed ==
    \/ ret = "Some"
    \/ \E s \in Stocks : env.settle[s] # "unasked"
    \/ env.crawler # CrawlerNotAsked

\* C36: once the precondition phase has passed, every held symbol has a record at
\* assess_date -- every entry of stocks_hold and of stocks_settled is priced
\* floor((high + low) / 2) of a record the store returned (never of the
\* zero-valued substitute), and Error::BackendRecordNotFound is returned only for
\* a symbol of the stock list that was not held and has no record.
C36_HeldSymbolsHaveRecords ==
    /\ PreconditionPassed =>
          \A s \in DOMAIN pre.stocks_hold : env.q[s].kind = "some"
    /\ ret = "Some" =>
          \A i \in DOMAIN portfolio.stocks_hold :
              LET s == portfolio.stocks_hold[i].stock_id
              IN  /\ env.q[s].kind = "some"
                  /\ portfolio.stocks_hold[i].price = (env.q[s].high + env.q[s].low) \div 2
    /\ ret = "BackendRecordNotFound" =>
          /\ env.crawler.kind = "ok"
          /\ \E s \in Range(env.crawler.list) \ DOMAIN pre.stocks_hold :
                env.q[s].kind = "none"

\* a held symbol was settled from its record and the call then returned
\* Error::BackendRecordNotFound for a symbol it chose
C36_Witness ==
    /\ ret = "BackendRecordNotFound"
    /\ \E s \in DOMAIN pre.stocks_hold :
          /\ env.settle[s] = "true"
          /\ env.q[s].kind = "some"
          /\ s \notin DOMAIN stocks_hold

(***************************************************************************)
(* Decision::calc_portfolio under every iteration order of stocks_hold.    *)
(***************************************************************************)
\* what the last call would have left, had the HashMap been iterated in order
Reordered(order) ==
    calc_portfolio(date, pre.liquidity, pre.stocks_hold, stocks_hold_num,
                   overflow_checks, [env EXCEPT !.order = order])

\* the same return value, engine state and snapshot, up to the order of the
\* entries of stocks_settled and stocks_hold
SameOutcome(o) ==
    /\ o.ret = ret
    /\ ret # "panic" =>
          /\ o.liquidity = liquidity
          /\ o.stocks_hold = stocks_hold
          /\ o.portfolio.date = portfolio.date
          /\ o.portfolio.liquidity = portfolio.liquidity
          /\ o.portfolio.stocks_selected = portfolio.stocks_selected
          /\ Range(o.portfolio.stocks_settled) = Range(portfolio.stocks_settled)
          /\ Len(o.portfolio.stocks_settled) = Len(portfolio.stocks_settled)
          /\ Range(o.portfolio.stocks_hold) = Range(portfolio.stocks_hold)
          /\ Len(o.portfolio.stocks_hold) = Len(portfolio.stocks_hold)

\* C37: determinism -- for the same engine state and the same answers of store,
\* strategy and crawler, calc_portfolio returns the same outcome and leaves the
\* same liquidity and holdings in whatever order stocks_hold is iterated;
\* stocks_settled and stocks_hold of the snapshot have the same entries and
\* stocks_selected is the same sequence.
C37_SameOutcomeInEveryOrder ==
    (run_pc = "off" /\ Returned) =>
        \A order \in Orders(DOMAIN pre.stocks_hold) : SameOutcome(Reordered(order))

\* C37 for a store that answers every query of the call (record or no record)
C37_SameOutcomeUnlessStoreFails ==
    (run_pc = "off" /\ Returned /\ \A s \in DOMAIN pre.stocks_hold : env.q[s].kind # "err") =>
        \A order \in Orders(DOMAIN pre.stocks_hold) : SameOutcome(Reordered(order))

\* two positions were held, one was settled and one kept, and the call returned
\* a snapshot
C37_TwoHeldWitness ==
    /\ ret = "Some"
    /\ Cardinality(DOMAIN pre.stocks_hold) = 2
    /\ Len(portfolio.stocks_settled) = 1
    /\ Len(portfolio.stocks_hold) = 1

(***************************************************************************)
(* Strategy::settle_check: how long a position is held at least.           *)
(***************************************************************************)
\* the records of the days from hold_date to assess_date
HeldDays ==
    {i \in DOMAIN store : /\ store[i].date >= checked.hold_date
                          /\ store[i].date <= checked.assess_date}

\* C38: minimum holding period -- settle_check returns false whenever fewer than
\* 3 views have a date in [hold_date, assess_date]; when it returns true the
\* store has 3 records or more of these days, so assess_date is the second
\* trading day after hold_date or a later one.
C38_MinimumHoldingPeriod ==
    checked.kind = "ok" =>
        /\ Cardinality(CheckedViews) < 3 => checked.settle = "false"
        /\ checked.settle = "true" =>
              /\ Cardinality(HeldDays) >= 3
              /\ checked.assess_date >= checked.hold_date + 2

\* the position was bought the day before: the views of both days have a weak
\* price and settle_check returns false, while it returns true for a position
\* bought one day earlier
C38_Witness ==
    /\ CheckedToAssessDate
    /\ Cardinality(CheckedViews) = 2
    /\ Weak(LastChecked)
    /\ Weak(LastChecked - 1)
    /\ Weak(LastChecked - 2)
    /\ checked.settle = "false"

(***************************************************************************)
(* Decision::get_select_stocks: a crawler that fails.                      *)
(***************************************************************************)
\* C39: a failure of get_stock_list is not propagated -- calc_portfolio never
\* returns Error::Crawler; a call in which get_stock_list fails returns a
\* snapshot with empty stocks_selected, in which the symbols with settle_check
\* true are settled and the others are in stocks_hold, and the selection phase
\* leaves liquidity and holdings as the settle phase left them.  (A call that
\* panics does so in the settle phase, before get_stock_list is called.)
C39_CrawlerFailureIsSwallowed ==
    /\ ret # "Crawler"
    /\ (Returned /\ ret # "panic" /\ env.crawler.kind = "err") =>
          /\ ret = "Some"
          /\ portfolio.stocks_selected = <<>>
          /\ Ids(portfolio.stocks_settled)
                = {s \in DOMAIN pre.stocks_hold : env.settle[s] = "true"}
          /\ Ids(portfolio.stocks_hold)
                = {s \in DOMAIN pre.stocks_hold : env.settle[s] = "false"}
          /\ DOMAIN stocks_hold = Ids(portfolio.stocks_hold)
          /\ liquidity = mid.liquidity
          /\ portfolio.liquidity = liquidity

\* get_stock_list fails in a call that settles one position and keeps another
C39_Witness ==
    /\ ret = "Some"
    /\ env.crawler.kind = "err"
    /\ portfolio.stocks_settled # <<>>
    /\ portfolio.stocks_hold # <<>>
    /\ liquidity > pre.liquidity

(***************************************************************************)
(* The u32 arithmetic of the accounting.                                   *)
(***************************************************************************)
\* the held symbols the settle phase of the last call credits, in the order of
\* the call; none when a settle_check failed
Credited ==
    IF \E s \in DOMAIN pre.stocks_hold : env.settle[s] # "true" /\ env.settle[s] # "false"
    THEN <<>>
    ELSE SelectSeq2(env.order, {s \in DOMAIN pre.stocks_hold : env.settle[s] = "true"})

RECURSIVE Proceeds(_)
\* the sum of num * price over the symbols of todo, in unbounded integers
Proceeds(todo) ==
    IF todo = <<>> THEN 0
    ELSE pre.stocks_hold[Head(todo)].num
            * ((env.q[Head(todo)].high + env.q[Head(todo)].low) \div 2)
         + Proceeds(Tail(todo))

\* C40: no unsigned overflow or underflow in the accounting -- the liquidity the
\* settle phase credits, liquidity before the call plus num * price of every
\* settled position, stays within the range of the u32 (so does every product
\* num * price), and what the selection phase debits is at most the liquidity
\* the settle phase left.
C40_NoOverflow ==
    Returned =>
        /\ pre.liquidity + Proceeds(Credited) < U32Modulus
        /\ ret = "Some" => Worth(portfolio.stocks_selected) <= mid.liquidity

\* the debits of the selection phase never exceed the liquidity at hand
C40_NoUnderflow ==
    ret = "Some" =>
        /\ Worth(portfolio.stocks_selected) <= mid.liquidity
        /\ liquidity = mid.liquidity - Worth(portfolio.stocks_selected)

====
